---- MODULE Spec2Model ----
(***************************************************************************)
(* A model of smet-collect's two core subsystems:                          *)
(*                                                                         *)
(*   - the bounded-concurrency command scheduler of                        *)
(*     smetcollect/process/jq/jq.py (JqSubprocess, JqEngine), and          *)
(*   - the collection state machine of smetcollect/collect/collect.py      *)
(*     (TweetRaceCollector),                                               *)
(*                                                                         *)
(* and of the commands that work on the collected data: the Pruner         *)
(* (process/command.py, process/prune.py) and the Compressor, Uncompressor *)
(* and Archiver of collect/compress.py.                                    *)
(*                                                                         *)
(* The subsystems share no state, so each has its own specification over   *)
(* the one set of variables: Spec / SpecFair / SpecDefaultCapacity move    *)
(* the scheduler and leave the rest untouched, SpecCollect moves the       *)
(* collector.  SpecEngine is one JqEngine.run, SpecFetch one page fetch    *)
(* (search_twitter and the rate limit), SpecSlug a TweetCollector that was *)
(* given a race slug, SpecImport the imports of RawImport, SpecBaseline    *)
(* the collector over a db that holds a run already, SpecInterrupt the     *)
(* collector with invocations that are killed, SpecProcess the Pruner runs *)
(* of JqEngine, SpecArchive the Compressor and the Archiver, and           *)
(* SpecCompress these two and the Uncompressor.                            *)
(***************************************************************************)
EXTENDS Integers, Sequences, FiniteSets, TLC

\* ------------------------------------------------------------------------
\* Bounds of the model
\* ------------------------------------------------------------------------

\* Largest number of jobs submitted to one engine under Spec.
MaxJobs == 3

\* Number of jobs of the "12 queued jobs" scenario (SpecDefaultCapacity).
ScenarioJobs == 12

\* Largest number of collector invocations (TweetRaceCollector.run) in a behaviour.
MaxInvocations == 2

\* Largest number of linked pages the remote search holds for one search term.
MaxChain == 3

\* Latest epoch second a rate-limit reset header or the wall clock of a page
\* fetch is drawn from.
MaxEpoch == 3

\* Largest number of imports (RawImport.run) in a behaviour.
MaxImports == 2

\* Largest number of runs a command of JqEngine.run has to process.
MaxTasks == 2

\* Largest number of runs of the race whose data folders are pruned,
\* compressed and archived.
MaxRuns == 3

\* Python's None.  The modelled exit statuses are 0 and 1, identifiers and
\* depths are >= 0, so -1 is distinct from every value it stands beside.
None == -1

\* Exit statuses a child process can report (0 = success, nonzero = failure).
ExitCodes == {0, 1}

\* Values a client may assign to the public attribute
\* max_number_running_processes so that the capacity binds within MaxJobs.
Capacities == {1, 2}

\* ------------------------------------------------------------------------
\* State of the scheduler (JqEngine, JqProxy and the JqSubprocess handles)
\* ------------------------------------------------------------------------
VARIABLES
    max_number_running_processes, \* JqEngine.max_number_running_processes
    queued_processes,             \* JqEngine.queued_processes    (list of handles)
    running_processes,            \* JqEngine.running_processes   (list of handles)
    completed_processes,          \* JqEngine.completed_processes (list of handles)
    return_code,                  \* JqSubprocess.return_code, per handle
    log_file,                     \* JqSubprocess.log_file is an open file, per handle
    exit_status,                  \* exit status of the handle's child process, None until it exits
    is_async,                     \* the async argument the handle was submitted with
    proxy_log_file,               \* JqProxy.log_file: "none", "open" or "closed"
    log_file_path,                \* JqEngine.log_file_path: number of the run-scoped log, 0 = None
    running_dir,                  \* log files in <bundle>/log/running
    succeeded_dir,                \* log files in <bundle>/log/succeeded
    failed_dir,                   \* log files in <bundle>/log/failed
    pc,                           \* position of the control thread
    i,                            \* index of the for loop over running_procs
    k,                            \* index of the for loop over completed_processes
    first_pass,                   \* the drain is in the first pass of its while loop
    queued_at_begin,              \* queued_processes as it was when the drain began
    running_at_begin,             \* running_processes as it was when the drain began
    start_order,                  \* handles in the order start() was called on them
    proc_log_file_path,           \* JqSubprocess.log_file_path, per handle
    running_at_pass,              \* running_processes as it was when the for loop began
    polled,                       \* handles the for loop has called poll() on, in order
    cmd,                          \* JqEngine.cmd: the command of JqEngine.run
    task_config,                  \* task configuration files written under <bundle>/tmp
    jq_progress                   \* messages JqEngine.run gave to progress_func, in order

\* What the current pass of the drain has polled.
passVars == << running_at_pass, polled >>

\* The state of one JqEngine.run: the command, its manifests, its messages.
engineVars == << cmd, task_config, jq_progress >>

jqVars == << max_number_running_processes, queued_processes, running_processes,
             completed_processes, return_code, log_file, exit_status, is_async,
             proxy_log_file, log_file_path, running_dir, succeeded_dir, failed_dir,
             pc, i, k, first_pass, queued_at_begin, running_at_begin, start_order,
             proc_log_file_path, passVars, engineVars >>

\* ------------------------------------------------------------------------
\* State of the collector (CollectorConfig, the status db, the raw data
\* folder, the remote search API, one TweetRaceCollector per invocation)
\* ------------------------------------------------------------------------
VARIABLES
    max_depth,               \* CollectorConfig.max_depth (None = unlimited)
    wait_period,             \* CollectorConfig.wait_period, in hours
    candidate_active,        \* Candidate.active, per candidate
    search_term_active,      \* SearchTerm.active, per search term
    chain_length,            \* remote: number of linked pages per search term
    races,                   \* table race: the names of the races, in the order of races()
    race_slug,               \* TweetCollector.race_slug (the empty string when not given)
    runs,                    \* table run: [start, end], the id is the index
    searches,                \* table search: [date, max_id, results_path, run, search_term]
    files,                   \* result files on disk: [folder, name, results]
    folders,                 \* run folders that exist under raw/<race>
    clock,                   \* the wall clock, in seconds
    resume,                  \* TweetRaceCollector.resume
    collector_run,           \* TweetRaceCollector.collector_run (a run id or None)
    previous_collector_run,  \* TweetRaceCollector.previous_collector_run
    current_time,            \* TweetRaceCollector.current_time
    called_twitter,          \* TweetRaceCollector.called_twitter
    cpc,                     \* position of the collector
    term_index,              \* index of the search term the loops are at
    last_run_max_id,         \* local of run_searches_for_candidate
    results,                 \* local: the page collect_subsequent_tweets continues from
    reached_depth,           \* local of collect_subsequent_tweets
    calls,                   \* remote calls made in this invocation, per search term
    writes,                  \* pages written in this invocation, per search term
    fetched,                 \* pages search_twitter returned in this invocation, per term
    requests,                \* parameters of the page fetches of this invocation, in order
    first_page,              \* what the first-page step of this invocation did, per term
    time_at_first,           \* current_time at the first-page step, per term
    last_date_at_first,      \* date of the term's most recent page at that step (or None)
    events,                  \* kinds of the events reported to progress_func in this invocation
    invocations,             \* number of invocations begun
    just_ran,                \* the invocation that ended with no time elapsed since
    searches_at_start,       \* len of table search when this invocation began
    since_at_fresh           \* last_run_max_id of the invocation that created the latest run, per term

configVars == << max_depth, wait_period, candidate_active, search_term_active, chain_length,
                races, race_slug >>

dbVars == << runs, searches, files, folders >>

raceCollectorVars == << resume, collector_run, previous_collector_run, current_time,
                        called_twitter, cpc, term_index, last_run_max_id, results,
                        reached_depth >>

observedVars == << calls, writes, fetched, requests, first_page, time_at_first, last_date_at_first, events,
                   invocations, just_ran, searches_at_start, since_at_fresh >>

\* State of the imports (RawImport)
VARIABLES
    import_root,            \* the result files under raw/<race> of the root to import from
    import_from,            \* RawImport.import_root: "root", or "bundle" when none was given
    imported_run_folders,   \* RawImport.imported_run_folders
    skipped_run_folders,    \* RawImport.skipped_run_folders
    ipc,                    \* position of the import
    to_list,                \* run folders the loop of read_data_for_race has yet to visit
    imports,                \* number of imports begun
    listed,                 \* the run folders this import found
    runs_at_import,         \* len of table run when this import began
    searches_at_import      \* len of table search when this import began

importVars == << import_root, import_from, imported_run_folders, skipped_run_folders,
                 ipc, to_list, imports, listed, runs_at_import, searches_at_import >>

collectVars == << configVars, dbVars, clock, raceCollectorVars, observedVars, importVars >>

\* One page fetch, step by step (search_twitter, then check_rate_limit)
VARIABLES
    fpc,            \* position inside search_twitter / check_rate_limit
    kwargs,         \* the parameters search_twitter was called with
    remote,         \* what twitter.search does: [first, retry]
    headers,        \* headers of the last remote call: [remaining, reset]
    utcnow,         \* datetime.utcnow(), in epoch seconds
    twitter_calls,  \* the parameters of the remote calls made, in order
    progress,       \* kinds of the events given to progress_func, in order
    slept,          \* the durations given to time.sleep, in order
    info            \* the last application of rate_limit_info: arguments and result

fetchVars == << fpc, kwargs, remote, headers, utcnow, twitter_calls, progress, slept, info >>

\* State of the bundle's data folders (raw, pruned, compressed) of one race,
\* and of the commands that work on them
VARIABLES
    raw_data,         \* per run: the files of raw/<race>/<run folder>, None = no folder
    pruned_data,      \* runs for which has_pruned_data_for_run holds
    compressed_data,  \* per run: compressed/<race>/<run folder>.tar.bz2, None = no file
    verified,         \* runs whose archive verify_archive has accepted
    tool,             \* the Compressor, Uncompressor or Archiver that is running
    process_command   \* the ProcessCommand of the latest JqEngine.run

bundleVars == << raw_data, pruned_data, compressed_data, verified, tool, process_command >>

vars == << jqVars, collectVars, fetchVars, bundleVars >>

\* Handles are numbered in submission order.
Handles == 1 .. Len(return_code)

\* generate_running_log_file_path: a file name made of the current time (to
\* the microsecond) and the operation.  Two calls never see the same
\* microsecond, so the name is the operation and the number of the call.
generate_running_log_file_path(operation, n) == << operation, n >>

\* the log of a handle (JqSubprocess.log_file_path) and the run-scoped log
JobLog(proc) == proc_log_file_path[proc]
RunLog(n) == generate_running_log_file_path("jq", n)

\* JqEngine.cmd before JqEngine.run is called
NoCmd == [set |-> FALSE, just_config |-> FALSE, runs_to_process |-> 0, tasks |-> 0]

\* Mutant of Remove: the element stays in the list.
RemoveNothing(list, x) == list

\* list.remove(x): drop the first element equal to x.
RECURSIVE Remove(_, _)
Remove(list, x) ==
    IF list = << >> THEN << >>
    ELSE IF Head(list) = x THEN Tail(list)
    ELSE << Head(list) >> \o Remove(Tail(list), x)

Count(list, x) == Cardinality({ n \in 1 .. Len(list) : list[n] = x })

Position(list, x) == CHOOSE n \in 1 .. Len(list) : list[n] = x

Range(list) == { list[n] : n \in 1 .. Len(list) }

\* The control thread is not inside process_spark_queue.
Idle == pc \in {"idle", "returned", "raised"}

\* ------------------------------------------------------------------------
\* JqEngine.__init__, JqProxy.__init__
\* ------------------------------------------------------------------------
JqInit ==
    /\ max_number_running_processes = 10
    /\ queued_processes = << >>
    /\ running_processes = << >>
    /\ completed_processes = << >>
    /\ return_code = << >>
    /\ log_file = << >>
    /\ exit_status = << >>
    /\ is_async = << >>
    /\ proxy_log_file = "none"
    /\ log_file_path = 0
    /\ running_dir = {}
    /\ succeeded_dir = {}
    /\ failed_dir = {}
    /\ pc = "idle"
    /\ i = 0
    /\ k = 0
    /\ first_pass = FALSE
    /\ queued_at_begin = << >>
    /\ running_at_begin = << >>
    /\ start_order = << >>
    /\ proc_log_file_path = << >>
    /\ running_at_pass = << >>
    /\ polled = << >>
    /\ cmd = NoCmd
    /\ task_config = << >>
    /\ jq_progress = << >>

\* ------------------------------------------------------------------------
\* BundleStatus.move_log_to_success / move_log_to_fail: os.rename of the log
\* from the running directory into the archive.
\* ------------------------------------------------------------------------
\* Mutant of move_log_to_success: the log is copied, not moved.
move_log_to_success_keeping(path) ==
    /\ running_dir' = running_dir
    /\ succeeded_dir' = succeeded_dir \cup {path}
    /\ failed_dir' = failed_dir

move_log_to_success(path) ==
    /\ running_dir' = running_dir \ {path}
    /\ succeeded_dir' = succeeded_dir \cup {path}
    /\ failed_dir' = failed_dir

move_log_to_fail(path) ==
    /\ running_dir' = running_dir \ {path}
    /\ failed_dir' = failed_dir \cup {path}
    /\ succeeded_dir' = succeeded_dir

\* Mutant of Failed: the test of the exit code inverted.
FailedInverted(code) == code = 0

\* `if proc.return_code != 0` of process_spark_queue and stop_run.
Failed(code) == code # 0

\* ------------------------------------------------------------------------
\* A client assigns the engine's public attribute before it uses the engine.
\* ------------------------------------------------------------------------
set_max_number_running_processes(m) ==
    /\ pc = "idle"
    /\ Len(return_code) = 0
    /\ proxy_log_file = "none"
    /\ max_number_running_processes = 10
    /\ max_number_running_processes' = m
    /\ UNCHANGED << queued_processes, running_processes, completed_processes,
                    return_code, log_file, exit_status, is_async, proxy_log_file,
                    log_file_path, running_dir, succeeded_dir, failed_dir, pc, i, k,
                    first_pass, queued_at_begin, running_at_begin, start_order >>
    /\ UNCHANGED << proc_log_file_path, passVars, engineVars, collectVars, fetchVars, bundleVars >>

\* ------------------------------------------------------------------------
\* JqEngine.start_run: open the run-scoped log in the running directory.
\* An engine object serves one run (process_test.py builds one per run).
\* ------------------------------------------------------------------------
start_run ==
    /\ Idle
    /\ proxy_log_file = "none"
    /\ log_file_path' = log_file_path + 1
    /\ proxy_log_file' = "open"
    /\ running_dir' = running_dir \cup {RunLog(log_file_path + 1)}
    /\ pc' = "idle"
    /\ UNCHANGED << max_number_running_processes, queued_processes, running_processes,
                    completed_processes, return_code, log_file, exit_status, is_async,
                    succeeded_dir, failed_dir, i, k, first_pass, queued_at_begin,
                    running_at_begin, start_order >>
    /\ UNCHANGED << proc_log_file_path, passVars, engineVars, collectVars, fetchVars, bundleVars >>

\* ------------------------------------------------------------------------
\* JqEngine.stop_run: close the run-scoped log, route it, forget the handles.
\* ------------------------------------------------------------------------
\* Mutant of FailedProcesses: no handle counts as failed.
FailedProcessesNone(completed) == << >>

\* line 218: failed_processes = [proc for proc in completed if proc.return_code != 0]
FailedProcesses(completed) ==
    SelectSeq(completed, LAMBDA proc : Failed(return_code[proc]))

stop_run ==
    /\ Idle
    /\ proxy_log_file = "open"
    /\ proxy_log_file' = "closed"
    /\ IF FailedProcesses(completed_processes) # << >>
       THEN move_log_to_fail(RunLog(log_file_path))
       ELSE move_log_to_success(RunLog(log_file_path))
    /\ queued_processes' = << >>
    /\ running_processes' = << >>
    /\ completed_processes' = << >>
    /\ pc' = "idle"
    /\ UNCHANGED << max_number_running_processes, return_code, log_file, exit_status,
                    is_async, log_file_path, i, k, first_pass, queued_at_begin,
                    running_at_begin, start_order >>
    /\ UNCHANGED << proc_log_file_path, passVars, engineVars, collectVars, fetchVars, bundleVars >>

\* ------------------------------------------------------------------------
\* JqEngine.spark_submit -> JqProxy.jq_submit.  jq_submit writes the command
\* to the run-scoped log first, which raises unless a run is open.
\*   async:     a JqSubprocess that is not started is appended to the queue;
\*   otherwise: start(), wait() (the child exits with `code`), cleanup(),
\*              and the handle is appended to the completed list.
\* ------------------------------------------------------------------------
\* Mutant of cleanup: the log file is left open.
cleanup_skipped(open) == open

\* JqSubprocess.cleanup: the log file, if there is one, is closed and forgotten
cleanup(open) == IF ~ open THEN open ELSE FALSE

spark_submit(async, code, limit) ==
    /\ Idle
    /\ proxy_log_file = "open"
    /\ Len(return_code) < limit
    /\ LET proc == Len(return_code) + 1
           path == generate_running_log_file_path("submit", proc)
       IN
       /\ proc_log_file_path' = Append(proc_log_file_path, path)
       /\ is_async' = Append(is_async, async)
       /\ log_file' = Append(log_file, IF async THEN FALSE ELSE cleanup(TRUE))
       /\ IF async
          THEN /\ queued_processes' = Append(queued_processes, proc)
               /\ return_code' = Append(return_code, None)
               /\ exit_status' = Append(exit_status, None)
               /\ UNCHANGED << completed_processes, running_dir, start_order >>
          ELSE /\ completed_processes' = Append(completed_processes, proc)
               /\ return_code' = Append(return_code, code)
               /\ exit_status' = Append(exit_status, code)
               /\ running_dir' = running_dir \cup {path}
               /\ start_order' = Append(start_order, proc)
               /\ UNCHANGED queued_processes
    /\ pc' = "idle"
    /\ UNCHANGED << max_number_running_processes, running_processes, proxy_log_file,
                    log_file_path, succeeded_dir, failed_dir, i, k, first_pass,
                    queued_at_begin, running_at_begin >>
    /\ UNCHANGED << passVars, engineVars, collectVars, fetchVars, bundleVars >>

\* ------------------------------------------------------------------------
\* A started child process exits on its own, with some exit status.
\* ------------------------------------------------------------------------
process_exits(proc, code) ==
    /\ proc \in Range(start_order)
    /\ exit_status[proc] = None
    /\ exit_status' = [exit_status EXCEPT ![proc] = code]
    /\ UNCHANGED << max_number_running_processes, queued_processes, running_processes,
                    completed_processes, return_code, log_file, is_async, proxy_log_file,
                    log_file_path, running_dir, succeeded_dir, failed_dir, pc, i, k,
                    first_pass, queued_at_begin, running_at_begin, start_order >>
    /\ UNCHANGED << proc_log_file_path, passVars, engineVars, collectVars, fetchVars, bundleVars >>

\* ------------------------------------------------------------------------
\* JqEngine.process_spark_queue, one action per step of the control thread.
\* running_procs is the very list object self.running_processes all along
\* (lines 268 and 280 rebind it to the same list), so the for loop walks the
\* list the loop body removes from: Python's list iterator keeps an index i
\* and stops when i >= len(list).
\* ------------------------------------------------------------------------

\* line 268: entry
process_spark_queue ==
    /\ Idle
    /\ pc' = "while"
    /\ first_pass' = TRUE
    /\ queued_at_begin' = queued_processes
    /\ running_at_begin' = running_processes
    /\ UNCHANGED << max_number_running_processes, queued_processes, running_processes,
                    completed_processes, return_code, log_file, exit_status, is_async,
                    proxy_log_file, log_file_path, running_dir, succeeded_dir,
                    failed_dir, i, k, start_order >>
    /\ UNCHANGED << proc_log_file_path, passVars, engineVars, collectVars, fetchVars, bundleVars >>

\* Mutant of WhileCondition: the loop ends as soon as the queue is empty.
WhileConditionQueuedOnly(queued, running_procs) == queued # << >>

\* line 269: while self.queued_processes or running_procs
WhileCondition(queued, running_procs) == queued # << >> \/ running_procs # << >>

while_test ==
    /\ pc = "while"
    /\ IF WhileCondition(queued_processes, running_processes)
       THEN /\ pc' = "for" /\ i' = 0 /\ k' = k
            /\ running_at_pass' = running_processes
            /\ polled' = << >>
       ELSE /\ pc' = "route" /\ k' = 0 /\ i' = i
            /\ UNCHANGED passVars
    /\ UNCHANGED << max_number_running_processes, queued_processes, running_processes,
                    completed_processes, return_code, log_file, exit_status, is_async,
                    proxy_log_file, log_file_path, running_dir, succeeded_dir,
                    failed_dir, first_pass, queued_at_begin, running_at_begin,
                    start_order >>
    /\ UNCHANGED << proc_log_file_path, engineVars, collectVars, fetchVars, bundleVars >>

\* JqSubprocess.poll: the exit status of the child, None while it runs
poll(proc) == exit_status[proc]

\* lines 270-274: one iteration of `for proc in running_procs`
for_poll ==
    /\ pc = "for"
    /\ i < Len(running_processes)
    /\ LET proc == running_processes[i + 1] IN
       /\ return_code' = [return_code EXCEPT ![proc] = poll(proc)]
       /\ polled' = Append(polled, proc)
       /\ IF poll(proc) # None
          THEN /\ running_processes' = Remove(running_processes, proc)
               /\ log_file' = [log_file EXCEPT ![proc] = cleanup(log_file[proc])]
               /\ completed_processes' = Append(completed_processes, proc)
          ELSE UNCHANGED << running_processes, log_file, completed_processes >>
    /\ i' = i + 1
    /\ UNCHANGED << max_number_running_processes, queued_processes, exit_status,
                    is_async, proxy_log_file, log_file_path, running_dir, succeeded_dir,
                    failed_dir, pc, k, first_pass, queued_at_begin, running_at_begin,
                    start_order >>
    /\ UNCHANGED << proc_log_file_path, running_at_pass, engineVars, collectVars, fetchVars, bundleVars >>

\* the for loop is exhausted
for_done ==
    /\ pc = "for"
    /\ i >= Len(running_processes)
    /\ pc' = "start"
    /\ UNCHANGED << max_number_running_processes, queued_processes, running_processes,
                    completed_processes, return_code, log_file, exit_status, is_async,
                    proxy_log_file, log_file_path, running_dir, succeeded_dir,
                    failed_dir, i, k, first_pass, queued_at_begin, running_at_begin,
                    start_order >>
    /\ UNCHANGED << proc_log_file_path, passVars, engineVars, collectVars, fetchVars, bundleVars >>

\* Mutant of CanStart: nothing is started once a completed handle has failed.
CanStartUnlessFailed(queued, running, max) ==
    /\ queued # << >>
    /\ Len(running) <= max
    /\ \A n \in 1 .. Len(completed_processes) : return_code[completed_processes[n]] = 0

\* line 275: while self.queued_processes and len(self.running_processes) <= max
CanStart(queued, running, max) == queued # << >> /\ Len(running) <= max

\* Mutant of First: the handle submitted last is taken.
Last(queued) == queued[Len(queued)]

\* line 276: first = self.queued_processes[0]
First(queued) == queued[1]

\* lines 276-279: start the first queued handle.  JqSubprocess.start opens the
\* handle's log file (created in the running directory) and spawns the child.
start_first ==
    /\ pc = "start"
    /\ CanStart(queued_processes, running_processes, max_number_running_processes)
    /\ LET first == First(queued_processes) IN
       /\ queued_processes' = Remove(queued_processes, first)
       /\ log_file' = [log_file EXCEPT ![first] = TRUE]
       /\ running_dir' = running_dir \cup {JobLog(first)}
       /\ start_order' = Append(start_order, first)
       /\ running_processes' = Append(running_processes, first)
    /\ UNCHANGED << max_number_running_processes, completed_processes, return_code,
                    exit_status, is_async, proxy_log_file, log_file_path,
                    succeeded_dir, failed_dir, pc, i, k, first_pass, queued_at_begin,
                    running_at_begin >>
    /\ UNCHANGED << proc_log_file_path, passVars, engineVars, collectVars, fetchVars, bundleVars >>

\* the inner while loop ends: the pass is over (line 280)
start_done ==
    /\ pc = "start"
    /\ ~ CanStart(queued_processes, running_processes, max_number_running_processes)
    /\ pc' = "sleep"
    /\ UNCHANGED << max_number_running_processes, queued_processes, running_processes,
                    completed_processes, return_code, log_file, exit_status, is_async,
                    proxy_log_file, log_file_path, running_dir, succeeded_dir,
                    failed_dir, i, k, first_pass, queued_at_begin, running_at_begin,
                    start_order >>
    /\ UNCHANGED << proc_log_file_path, passVars, engineVars, collectVars, fetchVars, bundleVars >>

\* Mutant of StillRunning: the sleep is left out after a pass that moved a job.
StillRunningAndQuiet(running_procs) ==
    running_procs # << >> /\ running_procs = running_at_pass

\* line 281: if running_procs
StillRunning(running_procs) == running_procs # << >>

\* lines 280-282: a job is running after the pass: time.sleep(1), then back to
\* the while test
sleep ==
    /\ pc = "sleep"
    /\ StillRunning(running_processes)
    /\ pc' = "while"
    /\ first_pass' = FALSE
    /\ UNCHANGED << max_number_running_processes, queued_processes, running_processes,
                    completed_processes, return_code, log_file, exit_status, is_async,
                    proxy_log_file, log_file_path, running_dir, succeeded_dir,
                    failed_dir, i, k, queued_at_begin, running_at_begin, start_order >>
    /\ UNCHANGED << proc_log_file_path, passVars, engineVars, collectVars, fetchVars, bundleVars >>

\* lines 280-281: no job is running after the pass: back to the while test
\* without a sleep
sleep_skipped ==
    /\ pc = "sleep"
    /\ ~ StillRunning(running_processes)
    /\ pc' = "while"
    /\ first_pass' = FALSE
    /\ UNCHANGED << max_number_running_processes, queued_processes, running_processes,
                    completed_processes, return_code, log_file, exit_status, is_async,
                    proxy_log_file, log_file_path, running_dir, succeeded_dir,
                    failed_dir, i, k, queued_at_begin, running_at_begin, start_order >>
    /\ UNCHANGED << proc_log_file_path, passVars, engineVars, collectVars, fetchVars, bundleVars >>

\* lines 283-287: one iteration of `for proc in self.completed_processes`.
\* os.rename raises when the log is not in the running directory any more.
route_log ==
    /\ pc = "route"
    /\ k < Len(completed_processes)
    /\ LET proc == completed_processes[k + 1] IN
       IF JobLog(proc) \notin running_dir
       THEN /\ pc' = "raised"
            /\ UNCHANGED << running_dir, succeeded_dir, failed_dir, k >>
       ELSE /\ IF Failed(return_code[proc])
               THEN move_log_to_fail(JobLog(proc))
               ELSE move_log_to_success(JobLog(proc))
            /\ k' = k + 1
            /\ pc' = pc
    /\ UNCHANGED << max_number_running_processes, queued_processes, running_processes,
                    completed_processes, return_code, log_file, exit_status, is_async,
                    proxy_log_file, log_file_path, i, first_pass, queued_at_begin,
                    running_at_begin, start_order >>
    /\ UNCHANGED << proc_log_file_path, passVars, engineVars, collectVars, fetchVars, bundleVars >>

\* process_spark_queue returns
route_done ==
    /\ pc = "route"
    /\ k >= Len(completed_processes)
    /\ pc' = "returned"
    /\ first_pass' = FALSE
    /\ UNCHANGED << max_number_running_processes, queued_processes, running_processes,
                    completed_processes, return_code, log_file, exit_status, is_async,
                    proxy_log_file, log_file_path, running_dir, succeeded_dir,
                    failed_dir, i, k, queued_at_begin, running_at_begin, start_order >>
    /\ UNCHANGED << proc_log_file_path, passVars, engineVars, collectVars, fetchVars, bundleVars >>

\* The steps of the control thread inside process_spark_queue.
DrainStep ==
    \/ while_test
    \/ for_poll
    \/ for_done
    \/ start_first
    \/ start_done
    \/ sleep
    \/ sleep_skipped
    \/ route_log
    \/ route_done

\* ------------------------------------------------------------------------
\* JqEngine.run(cmd) -> do_processing, one action per call it makes.  The
\* position inside do_processing is read off the state: the run-scoped log is
\* not opened yet, the task configuration is not written yet, the drain has
\* not begun or has returned, the run-scoped log is closed.
\* ------------------------------------------------------------------------

\* Mutant of ManifestOnly: just_config is ignored.
ManifestOnlyNever(config) == FALSE

\* lines 238, 291, 298: self.cmd.config.just_config
ManifestOnly(config) == config.just_config

\* the 'finished' message of line 316 has been given to progress_func
Finished == jq_progress # << >> /\ jq_progress[Len(jq_progress)] = "finished"

\* lines 309-314: the engine takes the command; collect_runs_to_process has
\* found the runs to process
run(just_config, runs_to_process) ==
    /\ ~ cmd.set
    /\ pc = "idle"
    /\ proxy_log_file = "none"
    /\ Len(return_code) = 0
    /\ cmd' = [set |-> TRUE, just_config |-> just_config,
               runs_to_process |-> runs_to_process, tasks |-> 0]
    /\ UNCHANGED << task_config, jq_progress >>
    /\ UNCHANGED << max_number_running_processes, queued_processes, running_processes,
                    completed_processes, return_code, log_file, exit_status, is_async,
                    proxy_log_file, log_file_path, running_dir, succeeded_dir,
                    failed_dir, pc, i, k, first_pass, queued_at_begin, running_at_begin,
                    start_order, proc_log_file_path, passVars >>
    /\ UNCHANGED << collectVars, fetchVars, bundleVars >>

\* lines 291-292: if not just_config: self.start_run()
do_processing_start_run ==
    /\ cmd.set
    /\ ~ ManifestOnly(cmd)
    /\ task_config = << >>
    /\ start_run

\* lines 294-295: queue_tasks adds one task per run to process, then
\* start_processing -> submit_spark_tasks(jq_script, jq_script, async=True):
\* the task configuration is written and reported; unless just_config, one
\* handle that is not started, with a "run" log, is appended to the queue.
start_processing ==
    /\ cmd.set
    /\ task_config = << >>
    /\ pc = "idle"
    /\ ManifestOnly(cmd) \/ proxy_log_file = "open"
    /\ cmd' = [cmd EXCEPT !.tasks = cmd.runs_to_process]
    /\ task_config' = Append(task_config, cmd.runs_to_process)
    /\ jq_progress' = Append(jq_progress, "progress")
    /\ IF ManifestOnly(cmd)
       THEN UNCHANGED << queued_processes, return_code, log_file, exit_status,
                         is_async, proc_log_file_path >>
       ELSE LET proc == Len(return_code) + 1 IN
            /\ proc_log_file_path' =
                   Append(proc_log_file_path, generate_running_log_file_path("run", proc))
            /\ is_async' = Append(is_async, TRUE)
            /\ log_file' = Append(log_file, FALSE)
            /\ queued_processes' = Append(queued_processes, proc)
            /\ return_code' = Append(return_code, None)
            /\ exit_status' = Append(exit_status, None)
    /\ UNCHANGED << max_number_running_processes, running_processes,
                    completed_processes, proxy_log_file, log_file_path, running_dir,
                    succeeded_dir, failed_dir, pc, i, k, first_pass, queued_at_begin,
                    running_at_begin, start_order, passVars >>
    /\ UNCHANGED << collectVars, fetchVars, bundleVars >>

\* line 296: self.process_spark_queue()
do_processing_process_spark_queue ==
    /\ cmd.set
    /\ task_config # << >>
    /\ pc = "idle"
    /\ proxy_log_file # "closed"
    /\ process_spark_queue

\* lines 298-299: if not just_config: self.stop_run()
do_processing_stop_run ==
    /\ cmd.set
    /\ ~ ManifestOnly(cmd)
    /\ pc = "returned"
    /\ stop_run

\* lines 316-317: do_processing has returned, 'finished' is reported
run_finished ==
    /\ cmd.set
    /\ ~ Finished
    /\ IF ManifestOnly(cmd) THEN pc = "returned" ELSE proxy_log_file = "closed"
    /\ jq_progress' = Append(jq_progress, "finished")
    /\ UNCHANGED << cmd, task_config >>
    /\ UNCHANGED << max_number_running_processes, queued_processes, running_processes,
                    completed_processes, return_code, log_file, exit_status, is_async,
                    proxy_log_file, log_file_path, running_dir, succeeded_dir,
                    failed_dir, pc, i, k, first_pass, queued_at_begin, running_at_begin,
                    start_order, proc_log_file_path, passVars >>
    /\ UNCHANGED << collectVars, fetchVars, bundleVars >>

\* ------------------------------------------------------------------------
\* Properties of the scheduler
\* ------------------------------------------------------------------------

\* The drain is between its entry and its return.
Draining == ~ Idle

\* The handles the drain was given: queued or running when it began.
DrainJobs == Range(queued_at_begin) \cup Range(running_at_begin)

\* C1: at every point of a drain the number of handles in the running list
\* is at most max_number_running_processes (10 as constructed).
CapacityInvariant == Len(running_processes) <= max_number_running_processes

\* The first pass of the while loop is over: the inner while loop has ended
\* and the pass's `if running_procs` is next.
AfterFirstPass == pc = "sleep" /\ first_pass

\* C2: 12 handles queued, none running and capacity 10 when the drain
\* begins: after the first pass exactly 10 are running and exactly 2 are
\* still queued.
FirstPassOfTwelve ==
    ( /\ AfterFirstPass
      /\ Len(queued_at_begin) = 12
      /\ running_at_begin = << >>
      /\ max_number_running_processes = 10 )
    => (Len(running_processes) = 10 /\ Len(queued_processes) = 2)

\* C3: when a drain has finished, the log of every handle in the completed
\* list is in the succeeded archive and not in the failed one if the exit
\* code is 0, in the failed archive and not in the succeeded one if it is
\* not 0, and in neither case still in the running directory.
LogRouting ==
    pc = "returned" =>
        \A n \in 1 .. Len(completed_processes) :
            LET proc == completed_processes[n]
                log == JobLog(proc)
            IN  /\ return_code[proc] = 0 =>
                       (log \in succeeded_dir /\ log \notin failed_dir)
                /\ return_code[proc] # 0 =>
                       (log \in failed_dir /\ log \notin succeeded_dir)
                /\ log \notin running_dir

\* A drain has finished that completed a handle with exit code 0 and a
\* handle with a nonzero exit code.
LogRoutingWitness ==
    /\ pc = "returned"
    /\ \E n \in 1 .. Len(completed_processes) :
           /\ return_code[completed_processes[n]] = 0
           /\ JobLog(completed_processes[n]) \in succeeded_dir
    /\ \E n \in 1 .. Len(completed_processes) :
           /\ return_code[completed_processes[n]] = 1
           /\ JobLog(completed_processes[n]) \in failed_dir

\* C4: if every started process eventually exits (SpecFair), a drain
\* terminates, and when it has terminated the queued and the running list
\* are empty and every handle the drain was given is in the completed list
\* exactly once, with an exit code that is not None.
DrainCompleteness ==
    /\ Draining ~> Idle
    /\ [](pc \in {"returned", "raised"} =>
            /\ queued_processes = << >>
            /\ running_processes = << >>
            /\ \A proc \in DrainJobs :
                   /\ Count(completed_processes, proc) = 1
                   /\ return_code[proc] # None)

\* A drain that was given three asynchronous handles has terminated.
DrainCompletenessWitness ==
    /\ pc = "returned"
    /\ Len(queued_at_begin) = 3
    /\ \A proc \in DrainJobs : is_async[proc] /\ proc \in Range(completed_processes)

\* C5: of two asynchronously submitted handles the one submitted first is
\* started no later than the other, and the only handle the drain ever
\* starts is the head of the queued list.
FifoStartOrder ==
    /\ [](\A a, b \in Handles :
            (is_async[a] /\ is_async[b] /\ a < b /\ b \in Range(start_order))
            => /\ a \in Range(start_order)
               /\ Position(start_order, a) < Position(start_order, b))
    /\ [][(pc = "start" /\ start_order' # start_order)
            => start_order' = Append(start_order, Head(queued_processes))]_vars

\* Three asynchronous handles against capacity 1: the third was started
\* only after a running handle had completed and freed capacity.
FifoStartOrderWitness ==
    /\ max_number_running_processes = 1
    /\ Len(queued_at_begin) = 3
    /\ start_order = << 1, 2, 3 >>
    /\ completed_processes # << >>
    /\ 3 \in Range(running_processes)

\* ------------------------------------------------------------------------
\* Properties of JqEngine.run and of the submissions
\* ------------------------------------------------------------------------

\* the logs in the two archives
Archived == succeeded_dir \cup failed_dir

\* C22 - Manifest-only mode: with just_config set, JqEngine.run writes the
\* task configuration (one file, holding every task) and starts no process,
\* creates no handle, puts nothing in the queued, running or completed list,
\* opens no run-scoped log and creates or moves no log file.
ManifestOnlyMode ==
    (cmd.set /\ cmd.just_config) =>
        /\ Len(return_code) = 0
        /\ start_order = << >>
        /\ queued_processes = << >>
        /\ running_processes = << >>
        /\ completed_processes = << >>
        /\ proxy_log_file = "none"
        /\ running_dir = {}
        /\ Archived = {}
        /\ Finished => task_config = << cmd.runs_to_process >>

\* a manifest-only run over two runs to process has finished
ManifestOnlyModeWitness ==
    /\ cmd.set
    /\ cmd.just_config
    /\ Finished
    /\ pc = "returned"
    /\ task_config = << 2 >>

\* the step is a stop_run: the run-scoped log is closed
StopRunStep == proxy_log_file = "open" /\ proxy_log_file' = "closed"

\* C23 - Run-scoped log routing: stop_run closes the run-scoped log and moves
\* it out of the running directory, into the failed archive if some handle
\* of the completed list has a nonzero exit code and into the succeeded
\* archive otherwise, and leaves the queued, running and completed lists
\* empty.
RunLogRouting ==
    [][StopRunStep =>
         LET log == RunLog(log_file_path)
             failure == \E n \in 1 .. Len(completed_processes) :
                            return_code[completed_processes[n]] # 0
         IN  /\ log \in running_dir
             /\ log \notin running_dir'
             /\ failure => (log \in failed_dir' /\ log \notin succeeded_dir')
             /\ ~ failure => (log \in succeeded_dir' /\ log \notin failed_dir')
             /\ queued_processes' = << >>
             /\ running_processes' = << >>
             /\ completed_processes' = << >>]_vars

\* a run was stopped after a handle exited with 0 and another with 1: its log
\* is in the failed archive
RunLogRoutingWitness ==
    /\ proxy_log_file = "closed"
    /\ RunLog(log_file_path) \in failed_dir
    /\ completed_processes = << >>
    /\ \E a, b \in Handles : return_code[a] = 0 /\ return_code[b] = 1

\* C24 - One scheduler entry per batch: a JqEngine.run that is not
\* manifest-only submits exactly one handle, asynchronously, whatever the
\* number of tasks; when it has finished no log is left in the running
\* directory and exactly two logs are archived, the run-scoped log and the
\* log of the handle, both in the same archive.
OneJobPerBatch ==
    (cmd.set /\ ~ cmd.just_config) =>
        /\ Len(return_code) <= 1
        /\ task_config # << >> => (Len(return_code) = 1 /\ is_async[1])
        /\ Finished =>
               /\ running_dir = {}
               /\ Archived = { RunLog(log_file_path), JobLog(1) }
               /\ Cardinality(Archived) = 2
               /\ Archived = succeeded_dir \/ Archived = failed_dir
               /\ succeeded_dir = {} \/ failed_dir = {}

\* a run over two tasks has finished with both logs in the succeeded archive
OneJobPerBatchWitness ==
    /\ cmd.set
    /\ ~ cmd.just_config
    /\ cmd.tasks = 2
    /\ Finished
    /\ Cardinality(succeeded_dir) = 2

\* the handle's log is in the archive its exit code sends it to
Routed(proc) ==
    /\ JobLog(proc) \notin running_dir
    /\ IF return_code[proc] = 0
       THEN JobLog(proc) \in succeeded_dir /\ JobLog(proc) \notin failed_dir
       ELSE JobLog(proc) \in failed_dir /\ JobLog(proc) \notin succeeded_dir

\* C25 - Job-failure isolation: whatever the exit codes, every handle a
\* drain was given is started and reaches the completed list and the drain
\* ends; no handle of the drain makes the routing raise; a drain that
\* returns has routed the log of each of its handles by its exit code.
JobFailureIsolation ==
    /\ Draining ~> (Idle /\ \A proc \in DrainJobs :
                               /\ proc \in Range(start_order)
                               /\ proc \in Range(completed_processes))
    /\ [](pc = "raised" => completed_processes[k + 1] \notin DrainJobs)
    /\ [](pc = "returned" => \A proc \in DrainJobs : Routed(proc))

\* a drain of three handles has returned: the first to complete had failed,
\* a handle started after it has succeeded
JobFailureIsolationWitness ==
    /\ pc = "returned"
    /\ Cardinality(DrainJobs) = 3
    /\ \E a, b \in DrainJobs :
           /\ a < b
           /\ return_code[a] = 1
           /\ return_code[b] = 0
           /\ Routed(a)
           /\ Routed(b)

\* the step is a submission: a handle is created
SubmitStep == Len(return_code') = Len(return_code) + 1

\* C26 - Submission modes: a synchronous submission starts the process,
\* waits for it, closes its log and appends the handle, with its exit code,
\* to the completed list, and the handle is never in the queued or the
\* running list; an asynchronous submission appends a handle that is not
\* started to the tail of the queued list and starts no process: only a
\* drain starts it.
SubmissionModes ==
    /\ [][SubmitStep =>
            LET proc == Len(return_code') IN
            IF is_async'[proc]
            THEN /\ queued_processes' = Append(queued_processes, proc)
                 /\ return_code'[proc] = None
                 /\ exit_status'[proc] = None
                 /\ start_order' = start_order
                 /\ running_dir' = running_dir
                 /\ completed_processes' = completed_processes
                 /\ running_processes' = running_processes
            ELSE /\ completed_processes' = Append(completed_processes, proc)
                 /\ return_code'[proc] \in ExitCodes
                 /\ return_code'[proc] = exit_status'[proc]
                 /\ start_order' = Append(start_order, proc)
                 /\ ~ log_file'[proc]
                 /\ queued_processes' = queued_processes
                 /\ running_processes' = running_processes]_vars
    /\ [](\A proc \in Handles :
            ~ is_async[proc] =>
                proc \notin Range(queued_processes) \cup Range(running_processes))
    /\ [][\A proc \in Handles :
             (is_async[proc] /\ proc \notin Range(start_order)
                             /\ proc \in Range(start_order'))
             => (pc = "start" /\ proc = Head(queued_processes))]_vars

\* a synchronous handle that failed is completed while an asynchronous one
\* submitted before it is still queued and not started
SubmissionModesWitness ==
    /\ Idle
    /\ \E a, b \in Handles :
           /\ a < b
           /\ is_async[a]
           /\ a \in Range(queued_processes)
           /\ a \notin Range(start_order)
           /\ ~ is_async[b]
           /\ return_code[b] = 1
           /\ b \in Range(completed_processes)

\* the for loop of the current pass is over
PassPolled == pc \in {"start", "sleep"}

\* C30 - Every running job is polled in every pass: when the for loop of a
\* pass is over, each handle that was in the running list when the loop
\* began has been polled exactly once, and each handle whose poll reported
\* an exit code is in the completed list with its log file closed.
EveryRunningJobPolled ==
    PassPolled =>
        /\ \A proc \in Range(running_at_pass) : Count(polled, proc) = 1
        /\ \A proc \in Range(polled) :
               return_code[proc] # None =>
                   /\ proc \in Range(completed_processes)
                   /\ proc \notin Range(running_processes)
                   /\ ~ log_file[proc]

\* The pass is over (the control thread is at line 280) and a job was started
\* or completed in it: each handle enters and leaves the running list once.
PassMovedAJob == pc = "sleep" /\ running_processes # running_at_pass

\* the step from the end of a pass back to the while test
PassEnds == pc = "sleep" /\ pc' = "while"

\* C31 as stated - The control thread sleeps between passes only when no job
\* changed state in the pass just finished: a pass that started or completed
\* a job is followed by the next poll without a sleep.
SleepOnlyWhenQuiet == [][(PassEnds /\ PassMovedAJob) => ~ sleep]_vars

\* C31 - The control thread sleeps after a pass exactly when a job is still
\* running at the end of it, whether or not a job changed state in the pass;
\* when none is running the loop goes on without a sleep.
SleepWhileRunning ==
    [][PassEnds => (sleep <=> running_processes # << >>)]_vars

\* a pass started or completed a job and leaves one running: the sleep follows
SleepWhileRunningWitness ==
    /\ PassMovedAJob
    /\ running_processes # << >>
    /\ completed_processes # << >>
    /\ ENABLED sleep

\* Number of places a handle has in the three lists, and the list it is in:
\* 1 = queued, 2 = running, 3 = completed, 0 = none.
Places(proc) ==
    Count(queued_processes, proc) + Count(running_processes, proc)
        + Count(completed_processes, proc)

Stage(proc) ==
    IF proc \in Range(queued_processes) THEN 1
    ELSE IF proc \in Range(running_processes) THEN 2
    ELSE IF proc \in Range(completed_processes) THEN 3
    ELSE 0

\* start() has been called on the handle
Started(proc) == proc \in Range(start_order)

\* what the lists say about a handle: queued = not started; running = started
\* and no exit code recorded; completed = started and an exit code recorded;
\* start() is called at most once, and before any poll()
HandleState(proc) ==
    /\ Count(start_order, proc) <= 1
    /\ Stage(proc) = 1 => (~ Started(proc) /\ return_code[proc] = None)
    /\ Stage(proc) = 2 => (Started(proc) /\ return_code[proc] = None)
    /\ Stage(proc) = 3 => (Started(proc) /\ return_code[proc] # None)
    /\ proc \in Range(polled) => Started(proc)

\* an asynchronous handle moves one list forward, a handle never moves back
MovesForward(proc) ==
    \/ Stage(proc)' = Stage(proc)
    \/ Stage(proc) \in {1, 2} /\ Stage(proc)' = Stage(proc) + 1

\* C32 as stated - At every point each submitted job is in exactly one of the
\* queued, running and completed lists, it only moves Queued to Running to
\* Completed, start is called once and before any poll, a running job has no
\* exit code and a completed job has one.
JobStateMachineAsStated ==
    /\ [](\A proc \in Handles : Places(proc) = 1 /\ HandleState(proc))
    /\ [][\A proc \in Handles : MovesForward(proc)]_vars

\* C32 - From its submission until stop_run empties the three lists, each
\* job is in exactly one of them (and in none afterwards); it only moves
\* Queued to Running to Completed; start is called once per job and before
\* any poll of it; a job in running has been started and has no recorded
\* exit code; a job in completed has a non-null exit code.
JobStateMachine ==
    /\ [](\A proc \in Handles :
             /\ Places(proc) = (IF proxy_log_file = "closed" THEN 0 ELSE 1)
             /\ HandleState(proc))
    /\ [][\A proc \in Handles : StopRunStep \/ MovesForward(proc)]_vars

\* a drain with a job in each of the three lists, the completed one having
\* come through the queue
JobStateMachineWitness ==
    /\ pc = "start"
    /\ \E a, b, c \in Handles :
           /\ Stage(a) = 3 /\ is_async[a]
           /\ Stage(b) = 2
           /\ Stage(c) = 1

\* ------------------------------------------------------------------------
\* The collector: smetcollect/collect/collect.py
\* ------------------------------------------------------------------------

\* The race's search terms in the order run / run_searches_for_candidate
\* visit them, and the candidate each belongs to.
Terms == << "t1", "t2" >>

Candidates == {"c1", "c2"}

CandidateOf(term) == IF term = "t1" THEN "c1" ELSE "c2"

\* collect.py:38
default_collector_wait_period == 2

\* Values of CollectorConfig.max_depth and CollectorConfig.wait_period.
Depths == {None, 0, 1, 2}

WaitPeriods == {0, default_collector_wait_period}

\* bundle.datetime_to_results_filename: the time stamp, to the microsecond,
\* and the suffix.
datetime_to_results_filename(now) == << now, ".json" >>

\* --- The remote search API, as MockTwython answers for it -----------------
\* The pages of a term are linked through next_results, a query string whose
\* max_id parameter selects the next (older) page; the page answered to
\* max_id = x reports max_id x in its search_metadata.

PageId(n) == MaxChain + 1 - n

NextResults(term, n) ==
    IF n < chain_length[term]
    THEN << << "max_id", PageId(n + 1) >>, << "q", term >> >>
    ELSE << >>

RemotePage(term, n) ==
    [ max_id |-> PageId(n), next_results |-> NextResults(term, n), q |-> term ]

\* twitter.search(q, since_id, max_id): the first page, or the page max_id selects
search(q, max_id) ==
    IF max_id = None THEN RemotePage(q, 1) ELSE RemotePage(q, MaxChain + 1 - max_id)

\* urlparse.parse_qs(urlparse.urlparse(next_results).query)[key][0]
QueryParam(next_results, key) ==
    next_results[CHOOSE n \in 1 .. Len(next_results) : next_results[n][1] = key][2]

\* What one page fetch meets at the remote end:
\*   first   the first call answers ("ok"), raises TwythonRateLimitError
\*           ("rate_limit") or raises something else ("error");
\*   retry   what the second call does after a rate-limit error.
\* The rate-limit headers are numbers and leave calls to spare, so neither
\* rate_limit_info nor check_rate_limit has anything to report.
FetchOutcomes ==
    { [first |-> "ok", retry |-> "ok"],
      [first |-> "rate_limit", retry |-> "ok"],
      [first |-> "rate_limit", retry |-> "error"],
      [first |-> "error", retry |-> "error"] }

\* search_twitter returns a page (it does not raise)
Fetched(outcome) ==
    \/ outcome.first = "ok"
    \/ outcome.first = "rate_limit" /\ outcome.retry = "ok"

\* remote calls search_twitter makes
CallsOf(outcome) == IF outcome.first = "rate_limit" THEN 2 ELSE 1

\* events search_twitter reports
SearchTwitterEvents(outcome) ==
    {"search"} \cup (IF outcome.first = "rate_limit" THEN {"rate-limit"} ELSE {})

\* --- Queries on the status db ---------------------------------------------

RunIds == 1 .. Len(runs)

SearchIds == 1 .. Len(searches)

SearchesOf(term) == { n \in SearchIds : searches[n].search_term = term }

\* Mutant of LatestSearch: the order is ascending, the oldest search comes first.
EarliestSearch(ids) ==
    CHOOSE n \in ids : \A m \in ids : searches[n].date <= searches[m].date

\* order_by(Search.date.desc()).first()
LatestSearch(ids) ==
    CHOOSE n \in ids : \A m \in ids : searches[m].date <= searches[n].date

\* Mutant of HighestSearch: the order is ascending, the lowest marker comes first.
LowestSearch(ids) ==
    CHOOSE n \in ids : \A m \in ids : searches[n].max_id <= searches[m].max_id

\* order_by(Search.max_id.desc()).first()
HighestSearch(ids) ==
    CHOOSE n \in ids : \A m \in ids : searches[m].max_id <= searches[n].max_id

\* Mutant of RecentRuns: the order is ascending, the oldest run comes first.
RECURSIVE OldestRuns(_, _)
OldestRuns(ids, limit) ==
    IF ids = {} \/ limit = 0 THEN << >>
    ELSE LET r == CHOOSE x \in ids : \A y \in ids : runs[x].start <= runs[y].start
         IN  << r >> \o OldestRuns(ids \ {r}, limit - 1)

\* race.runs.order_by(Run.start.desc()).slice(0, 2).all()
RECURSIVE RecentRuns(_, _)
RecentRuns(ids, limit) ==
    IF ids = {} \/ limit = 0 THEN << >>
    ELSE LET r == CHOOSE x \in ids : \A y \in ids : runs[y].start <= runs[x].start
         IN  << r >> \o RecentRuns(ids \ {r}, limit - 1)

\* get_last_run_max_id (until is None)
get_last_run_max_id(term) ==
    IF previous_collector_run = None THEN None
    ELSE LET before == { n \in SearchesOf(term) :
                             searches[n].date < runs[collector_run].start }
         IN  IF before = {} THEN None ELSE searches[HighestSearch(before)].max_id

\* Mutant of check_waiting_period: the period is taken as seconds, not hours.
check_waiting_period_seconds(last_search_date, now) ==
    IF last_search_date = None THEN FALSE
    ELSE (now - last_search_date) < wait_period

\* check_waiting_period
check_waiting_period(last_search_date, now) ==
    IF last_search_date = None THEN FALSE
    ELSE (now - last_search_date) < wait_period * 3600

\* reached_max_depth
reached_max_depth(depth) ==
    IF max_depth # None THEN depth >= max_depth ELSE FALSE

\* Mutant of read_search_results: some file of the run folder is read.
read_search_results_any(n) ==
    (CHOOSE f \in files : f.folder = searches[n].run).results

\* read_search_results: the content of the file the search row points to
read_search_results(n) ==
    (CHOOSE f \in files : f.folder = searches[n].run /\ f.name = searches[n].results_path).results

\* Mutant of SearchToContinue: the searches of the baseline run are looked up.
SearchToContinuePrevious(term) ==
    { n \in SearchesOf(term) : searches[n].run = previous_collector_run }

\* The searches the resume continues from (collect_first_tweets, lines 284-285)
SearchToContinue(term) ==
    { n \in SearchesOf(term) : searches[n].run = collector_run }

\* collect_subsequent_tweets, line 321 and 325: max_id of the next request
ContinuationMaxId(page) == QueryParam(page.next_results, "max_id")

\* Mutant of InitialDepth: the replayed page of a resume counts as a call.
InitialDepthOne(resuming) == 1

\* collect_subsequent_tweets, line 316
InitialDepth(resuming) == IF resuming THEN 0 ELSE 1

\* collect_first_tweets, lines 296-301: the parameters of the first-page
\* request (until is None); since_id is passed only when it is truthy
first_kwargs(term, since) ==
    [q |-> term, since_id |-> IF since # None /\ since # 0 THEN since ELSE None,
     max_id |-> None]

\* collect_subsequent_tweets, lines 324-325: the parameters of a continuation
\* request
subsequent_kwargs(term, since, next_max_id) ==
    [q |-> term, since_id |-> since, max_id |-> next_max_id]

\* the term is visited and not skipped (lines 226 and 238)
\* --- the races and their slugs; a string is the sequence of its characters --

\* str.lower on the letters the race names are written with
Lower(ch) == CASE ch = "M" -> "m" [] ch = "A" -> "a" [] OTHER -> ch

\* bundle.slug_for_string: s.lower().replace(' ', '-')
slug_for_string(str) ==
    [n \in 1 .. Len(str) |-> IF Lower(str[n]) = " " THEN "-" ELSE Lower(str[n])]

\* bundle.slug_for_race
slug_for_race(race) == slug_for_string(race)

\* The race whose collector is modelled step by step, and a race whose name
\* differs from it in case only.
FirstRace == << "M", "a", " ", "1" >>
SecondRace == << "m", "a", " ", "1" >>

\* no slug was given to the collector
NoSlug == << >>

\* The slugs a request may name: that of the first race, the name of the
\* first race as it is written, and the slug of a race the db does not hold.
Slugs == { << "m", "a", "-", "1" >>, FirstRace, << "n", "y", "-", "1" >> }

\* The tables of races a request may meet.
RaceLists == { << FirstRace >>, << FirstRace, SecondRace >> }

\* lines 135: [race for race in self.status.races() if slug_for_race(race) == slug]
matching_races(slug) ==
    SelectSeq([n \in 1 .. Len(races) |-> n], LAMBDA n : slug_for_race(races[n]) = slug)

\* Mutant of LookupFails: several matching races are not an error.
LookupFailsNone(matching) == Len(matching) < 1

\* lines 136, 140: len(matching_races) < 1, len(matching_races) > 1
LookupFails(matching) == Len(matching) < 1 \/ Len(matching) > 1

\* lines 134-147: the race of the modelled collector is among those
\* TweetCollector.run calls run_searches_for_race on
RaceSelected ==
    IF race_slug # NoSlug
    THEN /\ ~ LookupFails(matching_races(race_slug))
         /\ matching_races(race_slug)[1] = 1
    ELSE races # << >>

\* Mutant of Active: the candidate's flag is not looked at.
ActiveTermOnly(term) == search_term_active[term]

\* lines 236-237, 241-242: the candidate and the search term are both active
Active(term) == candidate_active[CandidateOf(term)] /\ search_term_active[term]

CollectorAtRest == cpc \in {"idle", "done", "aborted"}

\* --- Initial state: a synced status db with no run -----------------------
CollectInitWith(depth, period, cands, terms, chains) ==
    /\ max_depth = depth
    /\ wait_period = period
    /\ candidate_active = cands
    /\ search_term_active = terms
    /\ chain_length = chains
    /\ runs = << >>
    /\ searches = << >>
    /\ files = {}
    /\ folders = {}
    /\ clock = 0
    /\ resume = FALSE
    /\ collector_run = None
    /\ previous_collector_run = None
    /\ current_time = None
    /\ called_twitter = FALSE
    /\ cpc = "idle"
    /\ term_index = 0
    /\ last_run_max_id = None
    /\ results = RemotePage("t1", MaxChain)
    /\ reached_depth = 0
    /\ calls = [t \in Range(Terms) |-> 0]
    /\ writes = [t \in Range(Terms) |-> 0]
    /\ fetched = [t \in Range(Terms) |-> 0]
    /\ requests = << >>
    /\ first_page = [t \in Range(Terms) |-> "none"]
    /\ time_at_first = [t \in Range(Terms) |-> None]
    /\ last_date_at_first = [t \in Range(Terms) |-> None]
    /\ events = {}
    /\ invocations = 0
    /\ just_ran = "none"
    /\ searches_at_start = 0
    /\ since_at_fresh = [t \in Range(Terms) |-> {}]

\* --- Initial state of the imports: no RawImport yet --------------------------
ImportInitWith(root) ==
    /\ import_root = root
    /\ import_from = "bundle"
    /\ imported_run_folders = << >>
    /\ skipped_run_folders = << >>
    /\ ipc = "idle"
    /\ to_list = {}
    /\ imports = 0
    /\ listed = {}
    /\ runs_at_import = 0
    /\ searches_at_import = 0

\* The imports' state while something else is studied: nothing to import.
ImportUnused == ImportInitWith({})

\* Which candidates and terms are active: all, or all but the second term,
\* or all but the second candidate.
Activities ==
    { << [c \in Candidates |-> TRUE], [t \in Range(Terms) |-> TRUE] >>,
      << [c \in Candidates |-> TRUE], [t \in Range(Terms) |-> t = "t1"] >>,
      << [c \in Candidates |-> c = "c1"], [t \in Range(Terms) |-> TRUE] >> }

\* How many pages the remote end has of each term: any number of the first
\* term, one of the second.
Chains == { [t \in Range(Terms) |-> IF t = "t1" THEN n ELSE 1] : n \in 1 .. MaxChain }

\* --- A status db that holds one run: the state a fresh invocation with
\* max_depth = 1 leaves behind, either complete (a page of each term) or
\* aborted by the failure of its first fetch (no page) ----------------------
AfterFreshRun(period, activity, chains, complete, begun) ==
    /\ max_depth = 1
    /\ wait_period = period
    /\ candidate_active = activity[1]
    /\ search_term_active = activity[2]
    /\ chain_length = chains
    /\ runs = << [start |-> 1, end |-> IF complete THEN 3 ELSE None] >>
    /\ searches =
           IF complete
           THEN << [date |-> 2, max_id |-> RemotePage("t1", 1).max_id,
                    results_path |-> datetime_to_results_filename(2),
                    run |-> 1, search_term |-> "t1"],
                   [date |-> 3, max_id |-> RemotePage("t2", 1).max_id,
                    results_path |-> datetime_to_results_filename(3),
                    run |-> 1, search_term |-> "t2"] >>
           ELSE << >>
    /\ files =
           IF complete
           THEN { [folder |-> 1, name |-> datetime_to_results_filename(2),
                   results |-> RemotePage("t1", 1)],
                  [folder |-> 1, name |-> datetime_to_results_filename(3),
                   results |-> RemotePage("t2", 1)] }
           ELSE {}
    /\ folders = {1}
    /\ clock = IF complete THEN 3 ELSE 2
    /\ resume = FALSE
    /\ collector_run = 1
    /\ previous_collector_run = None
    /\ current_time = IF complete THEN 3 ELSE 2
    /\ called_twitter = TRUE
    /\ cpc = IF complete THEN "done" ELSE "aborted"
    /\ term_index = IF complete THEN Len(Terms) + 1 ELSE 1
    /\ last_run_max_id = None
    /\ results = IF complete THEN RemotePage("t2", 1) ELSE RemotePage("t1", MaxChain)
    /\ reached_depth = IF complete THEN 1 ELSE 0
    /\ calls = [t \in Range(Terms) |-> IF complete \/ t = "t1" THEN 1 ELSE 0]
    /\ writes = [t \in Range(Terms) |-> IF complete THEN 1 ELSE 0]
    /\ fetched = [t \in Range(Terms) |-> IF complete THEN 1 ELSE 0]
    /\ requests =
           IF complete THEN << first_kwargs("t1", None), first_kwargs("t2", None) >>
           ELSE << first_kwargs("t1", None) >>
    /\ first_page = [t \in Range(Terms) |->
                        IF complete THEN "fetched" ELSE IF t = "t1" THEN "failed" ELSE "none"]
    /\ time_at_first = [t \in Range(Terms) |->
                           IF t = "t1" THEN 2 ELSE IF complete THEN 3 ELSE None]
    /\ last_date_at_first = [t \in Range(Terms) |-> None]
    /\ events = {"search"}
    /\ invocations = begun
    /\ just_ran = IF complete THEN "fresh" ELSE "fresh_aborted"
    /\ searches_at_start = 0
    /\ since_at_fresh = [t \in Range(Terms) |-> IF complete \/ t = "t1" THEN {None} ELSE {}]

\* The dbs the baseline of a resume is studied over: the second term has one
\* page, so the complete run needs every term active.
BaselineInit ==
    \E period \in WaitPeriods, activity \in Activities, chains \in Chains,
       complete \in BOOLEAN :
        /\ complete => (\A c \in Candidates : activity[1][c]) /\ (\A t \in Range(Terms) : activity[2][t])
        /\ AfterFreshRun(period, activity, chains, complete, 0)
        /\ races = << FirstRace >>
        /\ race_slug = NoSlug
        /\ ImportUnused

CollectInit ==
    \E depth \in Depths, period \in WaitPeriods, activity \in Activities,
       chains \in Chains :
        /\ CollectInitWith(depth, period, activity[1], activity[2], chains)
        /\ races = << FirstRace >>
        /\ race_slug = NoSlug
        /\ ImportUnused

\* The collector's state while only the scheduler is studied.
CollectUnused ==
    /\ CollectInitWith(None, default_collector_wait_period,
                       [c \in Candidates |-> TRUE], [t \in Range(Terms) |-> TRUE],
                       [t \in Range(Terms) |-> 1])
    /\ races = << FirstRace >>
    /\ race_slug = NoSlug
    /\ ImportUnused

\* A collector that was given a slug, over a db of one or two races.
SlugInit ==
    \E slug \in Slugs, table \in RaceLists, activity \in Activities, chains \in Chains :
        /\ CollectInitWith(None, default_collector_wait_period,
                           activity[1], activity[2], chains)
        /\ races = table
        /\ race_slug = slug
        /\ ImportUnused

\* Mutant of NothingToResume: a resume with no run goes on as a fresh run.
NothingToResumeNever(resuming, recent_runs) == FALSE

\* initialize_state, lines 198-200, and run, line 222: resume was asked for
\* and the race has no run
NothingToResume(resuming, recent_runs) == resuming /\ Len(recent_runs) < 1

\* Mutant of NewRun: the run starts at the time read before this invocation.
NewRunStale(now) == [start |-> current_time, end |-> None]

\* initialize_state, line 209: Run(start=now, ...)
NewRun(now) == [start |-> now, end |-> None]

\* --- TweetRaceCollector.run up to its loop: initialize_state -------------
\* TweetCollector.run, lines 134-143: the slug matches no race or several;
\* an error is reported and run returns
slug_lookup_fails ==
    /\ CollectorAtRest
    /\ race_slug # NoSlug
    /\ LookupFails(matching_races(race_slug))
    /\ events' = {"error"}
    /\ UNCHANGED << configVars, dbVars, clock, raceCollectorVars, calls, writes,
                    fetched, requests, first_page, time_at_first, last_date_at_first,
                    invocations, just_ran, searches_at_start, since_at_fresh, importVars, jqVars, fetchVars, bundleVars >>

run_begin(resuming) ==
    /\ CollectorAtRest
    /\ RaceSelected
    /\ invocations < MaxInvocations
    /\ invocations' = invocations + 1
    /\ resume' = resuming
    /\ clock' = clock + 1
    /\ current_time' = clock + 1
    /\ called_twitter' = FALSE
    /\ calls' = [t \in Range(Terms) |-> 0]
    /\ writes' = [t \in Range(Terms) |-> 0]
    /\ fetched' = [t \in Range(Terms) |-> 0]
    /\ requests' = << >>
    /\ first_page' = [t \in Range(Terms) |-> "none"]
    /\ time_at_first' = [t \in Range(Terms) |-> None]
    /\ last_date_at_first' = [t \in Range(Terms) |-> None]
    /\ searches_at_start' = Len(searches)
    /\ term_index' = 1
    /\ LET recent_runs == RecentRuns(RunIds, 2) IN
       IF NothingToResume(resuming, recent_runs)
       THEN \* "No run to resume"
            /\ collector_run' = None
            /\ previous_collector_run' = None
            /\ events' = {"progress"}
            /\ cpc' = "done"
            /\ UNCHANGED << runs, folders, since_at_fresh >>
       ELSE IF resuming /\ Len(recent_runs) > 0
       THEN /\ collector_run' = recent_runs[1]
            /\ previous_collector_run' =
                   IF Len(recent_runs) > 1 THEN recent_runs[2] ELSE None
            /\ folders' = folders \cup {recent_runs[1]}
            /\ events' = {}
            /\ cpc' = "terms"
            /\ UNCHANGED << runs, since_at_fresh >>
       ELSE /\ previous_collector_run' =
                   IF Len(recent_runs) > 0 THEN recent_runs[1] ELSE None
            /\ runs' = Append(runs, NewRun(clock + 1))
            /\ collector_run' = Len(runs) + 1
            /\ folders' = folders \cup {Len(runs) + 1}
            /\ events' = {}
            /\ cpc' = "terms"
            /\ since_at_fresh' = [t \in Range(Terms) |-> {}]
    /\ UNCHANGED << configVars, searches, files, last_run_max_id, results,
                    reached_depth, just_ran, importVars, jqVars, fetchVars, bundleVars >>

\* --- lines 226-239: a term of an inactive candidate is not visited, an
\* inactive term is skipped ------------------------------------------------
skip_term ==
    /\ cpc = "terms"
    /\ term_index <= Len(Terms)
    /\ ~ Active(Terms[term_index])
    /\ term_index' = term_index + 1
    /\ UNCHANGED << configVars, dbVars, clock, resume, collector_run,
                    previous_collector_run, current_time, called_twitter, cpc,
                    last_run_max_id, results, reached_depth, observedVars, importVars, jqVars, fetchVars, bundleVars >>

\* Mutant of process_results: the last page of a chain is saved but no search
\* is recorded for it.
process_results_unrecorded(page, term, now, outcome) ==
    /\ files' = files \cup
           { [folder |-> collector_run, name |-> datetime_to_results_filename(now),
              results |-> page] }
    /\ searches' =
           IF page.next_results = << >> THEN searches
           ELSE Append(searches,
                    [date |-> now, max_id |-> page.max_id,
                     results_path |-> datetime_to_results_filename(now),
                     run |-> collector_run, search_term |-> term])
    /\ writes' = [writes EXCEPT ![term] = @ + 1]
    /\ events' = events \cup SearchTwitterEvents(outcome)

\* --- process_results: save the page, record the search, check_rate_limit --
process_results(page, term, now, outcome) ==
    /\ files' = files \cup
           { [folder |-> collector_run, name |-> datetime_to_results_filename(now),
              results |-> page] }
    /\ searches' = Append(searches,
           [date |-> now, max_id |-> page.max_id,
            results_path |-> datetime_to_results_filename(now),
            run |-> collector_run, search_term |-> term])
    /\ writes' = [writes EXCEPT ![term] = @ + 1]
    /\ events' = events \cup SearchTwitterEvents(outcome)

\* --- search_twitter raised: nothing catches it, the invocation is over ----
raised(term, outcome) ==
    /\ cpc' = "aborted"
    /\ just_ran' = IF resume THEN "resume_aborted" ELSE "fresh_aborted"
    /\ events' = events \cup SearchTwitterEvents(outcome)
    /\ UNCHANGED << files, searches, writes, fetched, results, reached_depth, term_index >>

\* --- lines 240-244: get_last_run_max_id and collect_first_tweets ----------
collect_first_tweets(outcome) ==
    /\ cpc = "terms"
    /\ term_index <= Len(Terms)
    /\ Active(Terms[term_index])
    /\ LET term == Terms[term_index]
           search_to_continue == SearchToContinue(term)
           now == clock + 1
           last_search_date ==
               IF SearchesOf(term) = {} THEN None
               ELSE searches[LatestSearch(SearchesOf(term))].date
       IN
       /\ last_run_max_id' = get_last_run_max_id(term)
       /\ last_date_at_first' = [last_date_at_first EXCEPT ![term] = last_search_date]
       /\ since_at_fresh' = IF resume THEN since_at_fresh
                            ELSE [since_at_fresh EXCEPT ![term] = {get_last_run_max_id(term)}]
       /\ IF resume /\ search_to_continue # {}
          THEN \* replay: the page is read from the run folder
               /\ results' = read_search_results(LatestSearch(search_to_continue))
               /\ reached_depth' = InitialDepth(resume)
               /\ first_page' = [first_page EXCEPT ![term] = "replay"]
               /\ time_at_first' = [time_at_first EXCEPT ![term] = current_time]
               /\ cpc' = "subsequent"
               /\ UNCHANGED << clock, current_time, called_twitter, calls, writes,
                               fetched, requests, events, files, searches,
                               term_index, just_ran >>
          ELSE /\ clock' = now
               /\ current_time' = now
               /\ time_at_first' = [time_at_first EXCEPT ![term] = now]
               /\ IF check_waiting_period(last_search_date, now)
                  THEN \* still waiting: results is None, on to the next term
                       /\ first_page' = [first_page EXCEPT ![term] = "waiting"]
                       /\ term_index' = term_index + 1
                       /\ UNCHANGED << called_twitter, calls, writes, fetched, requests,
                                       events, files, searches, results,
                                       reached_depth, cpc, just_ran >>
                  ELSE /\ called_twitter' = TRUE
                       /\ calls' = [calls EXCEPT ![term] = @ + CallsOf(outcome)]
                       /\ requests' = Append(requests,
                              first_kwargs(term, get_last_run_max_id(term)))
                       /\ IF Fetched(outcome)
                          THEN /\ results' = search(term, None)
                               /\ fetched' = [fetched EXCEPT ![term] = @ + 1]
                               /\ process_results(search(term, None), term, now, outcome)
                               /\ reached_depth' = InitialDepth(resume)
                               /\ first_page' = [first_page EXCEPT ![term] = "fetched"]
                               /\ cpc' = "subsequent"
                               /\ UNCHANGED << term_index, just_ran >>
                          ELSE /\ first_page' = [first_page EXCEPT ![term] = "failed"]
                               /\ raised(term, outcome)
    /\ UNCHANGED << configVars, runs, folders, resume, collector_run,
                    previous_collector_run, invocations, searches_at_start,
                    importVars, jqVars, fetchVars, bundleVars >>

\* --- lines 318-327: one more page of collect_subsequent_tweets ------------
collect_subsequent_tweets(outcome) ==
    /\ cpc = "subsequent"
    /\ results.next_results # << >>
    /\ ~ reached_max_depth(reached_depth)
    /\ LET term == Terms[term_index]
           now == clock + 1
           page == search(term, ContinuationMaxId(results))
       IN
       /\ clock' = now
       /\ current_time' = now
       /\ called_twitter' = TRUE
       /\ calls' = [calls EXCEPT ![term] = @ + CallsOf(outcome)]
       /\ requests' = Append(requests,
              subsequent_kwargs(term, last_run_max_id, ContinuationMaxId(results)))
       /\ IF Fetched(outcome)
          THEN /\ results' = page
               /\ fetched' = [fetched EXCEPT ![term] = @ + 1]
               /\ reached_depth' = reached_depth + 1
               /\ process_results(page, term, now, outcome)
               /\ UNCHANGED << cpc, term_index, just_ran >>
          ELSE raised(term, outcome)
    /\ UNCHANGED << configVars, runs, folders, resume, collector_run,
                    previous_collector_run, last_run_max_id, first_page, time_at_first,
                    last_date_at_first, invocations, searches_at_start,
                    since_at_fresh, importVars, jqVars, fetchVars, bundleVars >>

\* --- the while loop of collect_subsequent_tweets ends: on to the next term -
subsequent_done ==
    /\ cpc = "subsequent"
    /\ (results.next_results = << >> \/ reached_max_depth(reached_depth))
    /\ cpc' = "terms"
    /\ term_index' = term_index + 1
    /\ UNCHANGED << configVars, dbVars, clock, resume, collector_run,
                    previous_collector_run, current_time, called_twitter,
                    last_run_max_id, results, reached_depth, observedVars, importVars, jqVars, fetchVars, bundleVars >>

\* --- lines 230-231: every candidate is done, the run ends ----------------
run_end ==
    /\ cpc = "terms"
    /\ term_index > Len(Terms)
    /\ runs' = [runs EXCEPT ![collector_run].end = current_time]
    /\ cpc' = "done"
    /\ just_ran' = IF resume THEN "resume" ELSE "fresh"
    /\ UNCHANGED << configVars, searches, files, folders, clock, resume, collector_run,
                    previous_collector_run, current_time, called_twitter, term_index,
                    last_run_max_id, results, reached_depth, calls, writes, fetched,
                    requests, first_page, time_at_first, last_date_at_first, events,
                    invocations, searches_at_start, since_at_fresh, importVars, jqVars, fetchVars, bundleVars >>

\* --- Between two invocations the waiting period goes by -------------------
time_passes ==
    /\ CollectorAtRest
    /\ just_ran # "none"
    /\ clock' = clock + default_collector_wait_period * 3600
    /\ just_ran' = "none"
    /\ UNCHANGED << configVars, dbVars, raceCollectorVars, calls, writes, fetched,
                    requests, first_page, time_at_first, last_date_at_first, events,
                    invocations,
                    searches_at_start, since_at_fresh, importVars, jqVars, fetchVars, bundleVars >>

\* --- The process is killed (a signal, a power cut): the invocation is over
\* wherever it was; the db and the run folder stay as they are --------------
killed ==
    /\ cpc \in {"terms", "subsequent"}
    /\ cpc' = "aborted"
    /\ just_ran' = IF resume THEN "resume_aborted" ELSE "fresh_aborted"
    /\ UNCHANGED << configVars, dbVars, clock, resume, collector_run,
                    previous_collector_run, current_time, called_twitter, term_index,
                    last_run_max_id, results, reached_depth, calls, writes, fetched,
                    requests, first_page, time_at_first, last_date_at_first, events,
                    invocations, searches_at_start, since_at_fresh, importVars,
                    jqVars, fetchVars, bundleVars >>

\* process_results up to line 349: save_func has written the page, and the
\* process is killed before update_status_db commits the search (line 397)
save_func_then_killed(page, term, now) ==
    /\ files' = files \cup
           { [folder |-> collector_run, name |-> datetime_to_results_filename(now),
              results |-> page] }
    /\ writes' = [writes EXCEPT ![term] = @ + 1]
    /\ fetched' = [fetched EXCEPT ![term] = @ + 1]
    /\ calls' = [calls EXCEPT ![term] = @ + 1]
    /\ events' = events \cup {"search"}
    /\ clock' = now
    /\ current_time' = now
    /\ called_twitter' = TRUE
    /\ cpc' = "aborted"
    /\ just_ran' = IF resume THEN "resume_aborted" ELSE "fresh_aborted"
    /\ UNCHANGED << searches, results, reached_depth, term_index >>

\* --- collect_first_tweets fetches the first page and is killed inside
\* process_results ----------------------------------------------------------
killed_in_first_process_results ==
    /\ cpc = "terms"
    /\ term_index <= Len(Terms)
    /\ Active(Terms[term_index])
    /\ LET term == Terms[term_index]
           now == clock + 1
           last_search_date ==
               IF SearchesOf(term) = {} THEN None
               ELSE searches[LatestSearch(SearchesOf(term))].date
       IN
       /\ ~ (resume /\ SearchToContinue(term) # {})
       /\ ~ check_waiting_period(last_search_date, now)
       /\ last_run_max_id' = get_last_run_max_id(term)
       /\ last_date_at_first' = [last_date_at_first EXCEPT ![term] = last_search_date]
       /\ since_at_fresh' = IF resume THEN since_at_fresh
                            ELSE [since_at_fresh EXCEPT ![term] = {get_last_run_max_id(term)}]
       /\ time_at_first' = [time_at_first EXCEPT ![term] = now]
       /\ requests' = Append(requests, first_kwargs(term, get_last_run_max_id(term)))
       /\ first_page' = [first_page EXCEPT ![term] = "fetched"]
       /\ save_func_then_killed(search(term, None), term, now)
    /\ UNCHANGED << configVars, runs, folders, resume, collector_run,
                    previous_collector_run, invocations, searches_at_start,
                    importVars, jqVars, fetchVars, bundleVars >>

\* --- collect_subsequent_tweets fetches one more page and is killed inside
\* process_results ----------------------------------------------------------
killed_in_subsequent_process_results ==
    /\ cpc = "subsequent"
    /\ results.next_results # << >>
    /\ ~ reached_max_depth(reached_depth)
    /\ LET term == Terms[term_index]
           now == clock + 1
       IN
       /\ requests' = Append(requests,
              subsequent_kwargs(term, last_run_max_id, ContinuationMaxId(results)))
       /\ save_func_then_killed(search(term, ContinuationMaxId(results)), term, now)
    /\ UNCHANGED << configVars, runs, folders, resume, collector_run,
                    previous_collector_run, last_run_max_id, first_page, time_at_first,
                    last_date_at_first, invocations, searches_at_start,
                    since_at_fresh, importVars, jqVars, fetchVars, bundleVars >>

CollectNext ==
    \/ \E resuming \in BOOLEAN : run_begin(resuming)
    \/ skip_term
    \/ \E outcome \in FetchOutcomes : collect_first_tweets(outcome)
    \/ \E outcome \in FetchOutcomes : collect_subsequent_tweets(outcome)
    \/ subsequent_done
    \/ run_end
    \/ time_passes


\* ------------------------------------------------------------------------
\* One page fetch, step by step: rate_limit_info, search_twitter and the
\* check_rate_limit that follows a recorded page
\* ------------------------------------------------------------------------

\* A header value is absent (None) or a string, here the sequence of its
\* characters.
DigitChars == << "0", "1", "2", "3", "4", "5", "6", "7", "8", "9" >>

IsDigit(c) == \E n \in 1 .. Len(DigitChars) : DigitChars[n] = c

DigitValue(c) == (CHOOSE n \in 1 .. Len(DigitChars) : DigitChars[n] = c) - 1

\* the string of a one-digit number
Str(n) == << DigitChars[n + 1] >>

\* the number a string of digits reads as
RECURSIVE Decimal(_)
Decimal(str) ==
    IF str = << >> THEN 0
    ELSE 10 * Decimal(SubSeq(str, 1, Len(str) - 1)) + DigitValue(str[Len(str)])

IsNumeric(str) == str # << >> /\ \A n \in 1 .. Len(str) : IsDigit(str[n])

\* The Python values a header (or an argument of rate_limit_info) can be:
\* None, a string, a number.
PyNone == [type |-> "NoneType", text |-> << >>, value |-> 0]

PyStr(str) == [type |-> "str", text |-> str, value |-> 0]

PyInt(n) == [type |-> "int", text |-> << >>, value |-> n]

\* int(x) and float(x) of Python: the number, or the exception raised
ParseNumber(x) ==
    CASE x.type = "NoneType" -> [raises |-> "TypeError", value |-> 0]
      [] x.type = "int" -> [raises |-> "none", value |-> x.value]
      [] OTHER -> IF IsNumeric(x.text) THEN [raises |-> "none", value |-> Decimal(x.text)]
                  ELSE [raises |-> "ValueError", value |-> 0]

\* Python's truth value
Truthy(x) ==
    CASE x.type = "NoneType" -> FALSE
      [] x.type = "int" -> x.value # 0
      [] OTHER -> x.text # << >>

\* x-rate-limit-reset: absent, not a number, or an epoch second (also one of
\* two digits)
ResetValues ==
    {PyNone, PyStr(<< "s", "o", "o", "n" >>), PyStr(<< "1", "0" >>)}
    \cup { PyStr(Str(n)) : n \in 0 .. MaxEpoch }

\* x-rate-limit-remaining: absent, not a number, none left, some left
RemainingValues == {PyNone, PyStr(<< "x" >>), PyStr(Str(0)), PyStr(Str(5))}

HeaderValues == [remaining : RemainingValues, reset : ResetValues]

\* what twitter.search does on the first call and on the retry
RemoteBehaviours ==
    { [first |-> "ok", retry |-> "ok"], [first |-> "error", retry |-> "ok"] }
    \cup { [first |-> "rate_limit", retry |-> r] : r \in {"ok", "rate_limit", "error"} }

\* the keyword parameters of a first-page and of a continuation request
KwargsValues ==
    { [q |-> "t1", since_id |-> None, max_id |-> None],
      [q |-> "t1", since_id |-> 1, max_id |-> 2] }

\* Mutant of ResetCaught: a reset header that is not a number is waited out
\* like an absent one.
ResetCaughtAlways(parsed) == parsed.raises # "none"

\* rate_limit_info, line 79: the except clause catches TypeError only
ResetCaught(parsed) == parsed.raises = "TypeError"

\* rate_limit_info(limit_remaining, limit_reset, progress_func) at time now:
\* what it returns, what it reports and what it raises
rate_limit_info(limit_remaining, limit_reset, now) ==
    LET remaining == IF Truthy(limit_remaining) THEN ParseNumber(limit_remaining)
                     ELSE [raises |-> "none", value |-> 0]
        reset == ParseNumber(limit_reset)
    IN  IF remaining.raises # "none"
        THEN [limit |-> None, sleep_dur |-> None, reports |-> << >>,
              raises |-> remaining.raises]
        ELSE IF reset.raises = "none"
        THEN [limit |-> remaining.value, sleep_dur |-> reset.value - now,
              reports |-> << >>, raises |-> "none"]
        ELSE IF ResetCaught(reset)
        THEN [limit |-> remaining.value, sleep_dur |-> 0,
              reports |-> << "error" >>, raises |-> "none"]
        ELSE [limit |-> None, sleep_dur |-> None, reports |-> << >>,
              raises |-> reset.raises]

\* the application of rate_limit_info, with its arguments
Applied(limit_remaining, limit_reset, now) ==
    [called |-> TRUE, limit_remaining |-> limit_remaining, limit_reset |-> limit_reset,
     now |-> now, result |-> rate_limit_info(limit_remaining, limit_reset, now)]

\* Mutant of ShouldSleep: the callers sleep for any duration.
ShouldSleepAlways(sleep_dur) == TRUE

\* lines 365 and 384: the callers of rate_limit_info sleep only for a positive
\* duration
ShouldSleep(sleep_dur) == sleep_dur > 0

NotApplied ==
    [called |-> FALSE, limit_remaining |-> PyNone, limit_reset |-> PyNone,
     now |-> None, result |-> [limit |-> None, sleep_dur |-> None, reports |-> << >>, raises |-> "none"]]

FetchInitWith(params, behaviour, now) ==
    /\ fpc = "idle"
    /\ kwargs = params
    /\ remote = behaviour
    /\ headers = [remaining |-> PyNone, reset |-> PyNone]
    /\ utcnow = now
    /\ twitter_calls = << >>
    /\ progress = << >>
    /\ slept = << >>
    /\ info = NotApplied

FetchInit ==
    \E params \in KwargsValues, behaviour \in RemoteBehaviours, now \in 1 .. MaxEpoch - 1 :
        FetchInitWith(params, behaviour, now)

\* The page fetcher's state while the collector or the scheduler is studied.
FetchUnused ==
    FetchInitWith([q |-> "t1", since_id |-> None, max_id |-> None],
                  [first |-> "ok", retry |-> "ok"], 1)

\* --- search_twitter, lines 372-374: the search is reported ----------------
search_twitter_begin ==
    /\ fpc = "idle"
    /\ progress' = Append(progress, "search")
    /\ fpc' = "try"
    /\ UNCHANGED << kwargs, remote, headers, utcnow, twitter_calls, slept, info,
                    jqVars, collectVars, bundleVars >>

\* --- lines 375-378: the first remote call ----------------------------------
twitter_search_first(h) ==
    /\ fpc = "try"
    /\ twitter_calls' = Append(twitter_calls, kwargs)
    /\ headers' = h
    /\ fpc' = CASE remote.first = "ok" -> "returned"
                [] remote.first = "rate_limit" -> "except"
                [] OTHER -> "raised"
    /\ UNCHANGED << kwargs, remote, utcnow, progress, slept, info, jqVars, collectVars, bundleVars >>

\* --- lines 379-383: the rate limit is looked up and reported ---------------
except_rate_limit ==
    /\ fpc = "except"
    /\ info' = Applied(PyInt(0), headers.reset, utcnow)
    /\ LET r == rate_limit_info(PyInt(0), headers.reset, utcnow) IN
       IF r.raises # "none"
       THEN /\ fpc' = "raised"
            /\ UNCHANGED progress
       ELSE /\ fpc' = "sleep"
            /\ progress' = progress \o r.reports \o << "rate-limit" >>
    /\ UNCHANGED << kwargs, remote, headers, utcnow, twitter_calls, slept,
                    jqVars, collectVars, bundleVars >>

\* --- lines 384-385: sleep if there is something to wait for ---------------
except_sleep ==
    /\ fpc = "sleep"
    /\ IF ShouldSleep(info.result.sleep_dur)
       THEN /\ slept' = Append(slept, info.result.sleep_dur)
            /\ utcnow' = utcnow + info.result.sleep_dur
       ELSE UNCHANGED << slept, utcnow >>
    /\ fpc' = "retry"
    /\ UNCHANGED << kwargs, remote, headers, twitter_calls, progress, info,
                    jqVars, collectVars, bundleVars >>

\* --- lines 386-387: the one retry; what it raises is not caught ----------
twitter_search_retry(h) ==
    /\ fpc = "retry"
    /\ twitter_calls' = Append(twitter_calls, kwargs)
    /\ headers' = h
    /\ fpc' = IF remote.retry = "ok" THEN "returned" ELSE "raised"
    /\ UNCHANGED << kwargs, remote, utcnow, progress, slept, info, jqVars, collectVars, bundleVars >>

\* --- check_rate_limit, called by process_results on the returned page ------
check_rate_limit ==
    /\ fpc = "returned"
    /\ info' = Applied(headers.remaining, headers.reset, utcnow)
    /\ LET r == rate_limit_info(headers.remaining, headers.reset, utcnow) IN
       IF r.raises # "none"
       THEN /\ fpc' = "check_raised"
            /\ UNCHANGED << progress, slept, utcnow >>
       ELSE /\ fpc' = "checked"
            /\ IF r.limit > 0
               THEN /\ progress' = progress \o r.reports
                    /\ UNCHANGED << slept, utcnow >>
               ELSE /\ progress' = progress \o r.reports \o << "rate-limit" >>
                    /\ IF ShouldSleep(r.sleep_dur)
                       THEN /\ slept' = Append(slept, r.sleep_dur)
                            /\ utcnow' = utcnow + r.sleep_dur
                       ELSE UNCHANGED << slept, utcnow >>
    /\ UNCHANGED << kwargs, remote, headers, twitter_calls, jqVars, collectVars, bundleVars >>

FetchNext ==
    \/ search_twitter_begin
    \/ \E h \in HeaderValues : twitter_search_first(h)
    \/ except_rate_limit
    \/ except_sleep
    \/ \E h \in HeaderValues : twitter_search_retry(h)
    \/ check_rate_limit

\* ------------------------------------------------------------------------
\* RawImport: the runs found on disk under a root are imported into the db
\* ------------------------------------------------------------------------

\* bundle.datetime_to_run_folder_name and its inverse, results_filename_to_datetime:
\* strftime and strptime with the microseconds, so the time is read back whole
datetime_to_run_folder_name(now) == << now, "_run" >>

run_folder_name_to_datetime(filename) == filename[1]

results_filename_to_datetime(filename) == filename[1]

\* A page as it lies in a result file: search_metadata holds max_id and the
\* refresh_url whose q parameter is the search term.
ImportPage(term, max_id) == [max_id |-> max_id, next_results |-> << >>, q |-> term]

\* The pages a root may hold: two pages of t1, a page of t2 with the marker
\* of a page of t1, and a page of a term the db does not know.
ImportPages ==
    { ImportPage("t1", 1), ImportPage("t1", 2), ImportPage("t2", 1), ImportPage("zz", 1) }

RunFolderNames == { datetime_to_run_folder_name(1), datetime_to_run_folder_name(2) }

ResultFileNames == { datetime_to_results_filename(3), datetime_to_results_filename(4) }

\* What a run folder may hold: files of different names, each with a page.
FolderContents ==
    UNION { { { [name |-> n, results |-> page[n]] : n \in names } :
                page \in [names -> ImportPages] } :
            names \in SUBSET ResultFileNames }

\* What raw/<race> of a root may hold: run folders of different names.
ImportRoots ==
    UNION { { { [name |-> n, files |-> content[n]] : n \in names } :
                content \in [names -> FolderContents] } :
            names \in SUBSET RunFolderNames }

\* raw/<race> of the bundle itself: the folder of each run, named by its start
BundleRoot ==
    { [name |-> datetime_to_run_folder_name(runs[r].start),
       files |-> { [name |-> f.name, results |-> f.results] :
                       f \in { g \in files : g.folder = r } }] : r \in folders }

\* os.listdir(import_raw_data_path), with the content of each folder
Listing(from) == IF from = "bundle" THEN BundleRoot ELSE import_root

\* Mutant of ExistingRun: no run is ever found in the db.
ExistingRunNever(now) == {}

\* prepare_import_run, lines 455-456: the runs of the race that start at now
ExistingRun(now) == { r \in RunIds : runs[r].start = now }

\* prepare_import_run, line 464: Run(start=now, results_folder=..., race=race)
ImportedRun(now) == [start |-> now, end |-> None]

\* the orders os.listdir may give the files in
Orders(set) ==
    { order \in [1 .. Cardinality(set) -> set] :
          \A a, b \in 1 .. Cardinality(set) : a # b => order[a] # order[b] }

\* import_search_results on one file: the table search afterwards.  The
\* lookup of the marker goes through the session, which flushes the rows
\* added before.
import_search_results(table, imported_run, file) ==
    LET search_term_str == file.results.q
        max_id == file.results.max_id
    IN  IF search_term_str \notin Range(Terms)
        THEN table
        ELSE IF \E n \in 1 .. Len(table) :
                    table[n].search_term = search_term_str /\ table[n].max_id = max_id
        THEN table
        ELSE Append(table, [date |-> results_filename_to_datetime(file.name),
                            max_id |-> max_id, results_path |-> file.name,
                            run |-> imported_run, search_term |-> search_term_str])

\* import_runs, lines 491-492: import_search_results on every file, in order
RECURSIVE ImportFiles(_, _, _)
ImportFiles(table, imported_run, order) ==
    IF order = << >> THEN table
    ELSE ImportFiles(import_search_results(table, imported_run, Head(order)),
                     imported_run, Tail(order))

\* RawImport(status, root).run() up to the loop of read_data_for_race
rawimport_run(from) ==
    /\ ipc \in {"idle", "done"}
    /\ imports < MaxImports
    /\ imports' = imports + 1
    /\ import_from' = from
    /\ imported_run_folders' = << >>
    /\ skipped_run_folders' = << >>
    /\ to_list' = { folder.name : folder \in Listing(from) }
    /\ listed' = { folder.name : folder \in Listing(from) }
    /\ runs_at_import' = Len(runs)
    /\ searches_at_import' = Len(searches)
    /\ ipc' = "listing"
    /\ UNCHANGED << import_root, configVars, dbVars, clock, raceCollectorVars,
                    observedVars, jqVars, fetchVars, bundleVars >>

\* import_runs on one run folder, in the order os.listdir gives them
import_runs(run_folder_name) ==
    /\ ipc = "listing"
    /\ run_folder_name \in to_list
    /\ to_list' = to_list \ {run_folder_name}
    /\ LET now == run_folder_name_to_datetime(run_folder_name)
           folder == CHOOSE f \in Listing(import_from) : f.name = run_folder_name
           imported_run == Len(runs) + 1
       IN  IF ExistingRun(now) # {}
           THEN /\ skipped_run_folders' = Append(skipped_run_folders, run_folder_name)
                /\ UNCHANGED << imported_run_folders, dbVars >>
           ELSE /\ imported_run_folders' = Append(imported_run_folders, run_folder_name)
                /\ runs' = Append(runs, ImportedRun(now))
                /\ folders' = folders \cup {imported_run}
                /\ files' = files \cup { [folder |-> imported_run, name |-> f.name,
                                           results |-> f.results] : f \in folder.files }
                /\ \E order \in Orders(folder.files) :
                       searches' = ImportFiles(searches, imported_run, order)
                /\ UNCHANGED skipped_run_folders
    /\ UNCHANGED << import_root, import_from, ipc, imports, listed, runs_at_import,
                    searches_at_import, configVars, clock, raceCollectorVars,
                    observedVars, jqVars, fetchVars, bundleVars >>

\* the loop of read_data_for_race is over, run returns
import_end ==
    /\ ipc = "listing"
    /\ to_list = {}
    /\ ipc' = "done"
    /\ UNCHANGED << import_root, import_from, imported_run_folders,
                    skipped_run_folders, to_list, imports, listed, runs_at_import,
                    searches_at_import, configVars, dbVars, clock, raceCollectorVars,
                    observedVars, jqVars, fetchVars, bundleVars >>

\* ------------------------------------------------------------------------
\* The data folders of one race and the commands that work on them: the
\* Pruner (a ProcessCommand run by JqEngine.run), and the Compressor,
\* Uncompressor and Archiver of collect/compress.py
\* ------------------------------------------------------------------------

\* The runs of the race; a run that started later has the higher number.
BundleRuns == 1 .. MaxRuns

\* The result files of a run folder.
RunFiles == {"page1", "page2"}

\* Values a client gives as max_depth to CompressorConfig and to
\* ProcessCommandConfig.
DepthArgs == {None, 0} \cup (1 .. MaxRuns)

\* compress.py:33: self.max_depth = max_depth if max_depth > 1 else None
\* (None > 1 is False)
CompressorConfig(limit) ==
    IF limit # None /\ limit > 1 THEN limit ELSE None

\* Mutant of ProcessCommandConfig: a limit of 1 is dropped, as CompressorConfig does.
ProcessCommandConfigAboveOne(limit) ==
    IF limit # None /\ limit > 1 THEN limit ELSE None

\* command.py:34: self.max_depth = max_depth if max_depth > 0 else None
ProcessCommandConfig(limit) ==
    IF limit # None /\ limit > 0 THEN limit ELSE None

\* race.runs.order_by(Run.start.desc()), restricted to ids
RECURSIVE LatestFirst(_)
LatestFirst(ids) ==
    IF ids = {} THEN << >>
    ELSE LET r == CHOOSE x \in ids : \A y \in ids : y <= x
         IN  << r >> \o LatestFirst(ids \ {r})

\* race.runs.order_by(Run.start), restricted to ids
RECURSIVE EarliestFirst(_)
EarliestFirst(ids) ==
    IF ids = {} THEN << >>
    ELSE LET r == CHOOSE x \in ids : \A y \in ids : x <= y
         IN  << r >> \o EarliestFirst(ids \ {r})

\* runs[0:max_depth]
Slice(list, limit) ==
    IF limit < Len(list) THEN SubSeq(list, 1, limit) ELSE list

\* compress.py:77-78, 190-191, 377-378: if self.config.max_depth: runs = runs[0:max_depth]
Limited(list, limit) ==
    IF limit # None /\ limit # 0 THEN Slice(list, limit) ELSE list

\* command.py:105-106: if max_depth and max_depth > 0: runs = runs[0:max_depth]
LimitedTasks(list, limit) ==
    IF limit # None /\ limit # 0 /\ limit > 0 THEN Slice(list, limit) ELSE list

\* A raw run folder and its files; no folder.
Folder(paths) == [exists |-> TRUE, files |-> paths]
NoFolder == [exists |-> FALSE, files |-> {}]

\* A .tar.bz2 that tarfile can read, with its members; a file that tarfile
\* cannot read (a truncated bzip2 stream); no file.
Archive(members) == [kind |-> "readable", members |-> members]
Unreadable == [kind |-> "unreadable", members |-> {}]
NoArchive == [kind |-> "none", members |-> {}]

\* What `tar -cjf` can leave at the archive's path: an archive of all the files,
\* an archive that lacks some, a truncated file (the disk is full, tar is
\* killed), or nothing.  Its return code is not looked at (line 92).
TarOutcomes(paths) == {Archive(m) : m \in SUBSET paths} \cup {Unreadable, NoArchive}

\* Compressor.verify_archive, lines 101-118, of an archive tarfile.open could
\* open: every path of os.listdir(raw_data_path) is a member.  (A member's size
\* is never negative.)
verify_archive(paths, archive) == \A path \in paths : path \in archive.members

\* tarfile.open(compressed_data_path), line 103, raises: the file is missing
\* or is not a readable archive.
OpenRaises(archive) == archive.kind # "readable"

\* No Compressor, Uncompressor or Archiver is running.
NoTool == [kind |-> "none", given |-> None, max_depth |-> None,
           selected |-> << >>, todo |-> << >>, handled |-> << >>]

\* No JqEngine.run has been made.
NoCommand == [running |-> FALSE, given |-> None, max_depth |-> None,
              runs_to_process |-> << >>, tasks |-> << >>, outcome |-> "none",
              previous |-> [outcome |-> "none", runs_to_process |-> << >>, tasks |-> << >>]]

\* A bundle whose runs have been collected; Pruner runs have left pruned data
\* for the runs of `pruned`; nothing is compressed.
BundleInitWith(pruned) ==
    /\ raw_data = [r \in BundleRuns |-> Folder(RunFiles)]
    /\ pruned_data = pruned
    /\ compressed_data = [r \in BundleRuns |-> NoArchive]
    /\ verified = {}
    /\ tool = NoTool
    /\ process_command = NoCommand

BundleInit == \E pruned \in SUBSET BundleRuns : BundleInitWith(pruned)

\* The bundle's folders while something else is studied.
BundleUnused == BundleInitWith({})

\* --- the Pruner under JqEngine.run ------------------------------------------

\* Pruner.should_process_run, prune.py:47-50
should_process_run(r) == r \notin pruned_data

\* JqEngine.run(Pruner(status, PrunerConfig(status, max_depth))) up to the
\* submission of the job (jq.py:309-315, 289-296): a new command collects the
\* runs to process (command.py:135-142) and queue_tasks queues one task per
\* run of the slice (command.py:99-108).
engine_run(limit) ==
    /\ ~ process_command.running
    /\ tool.kind = "none"
    /\ LET config == ProcessCommandConfig(limit)
           found == SelectSeq(LatestFirst(BundleRuns), should_process_run)
       IN  process_command' =
               [running |-> TRUE, given |-> limit, max_depth |-> config,
                runs_to_process |-> found, tasks |-> LimitedTasks(found, config),
                outcome |-> "running",
                previous |-> [outcome |-> process_command.outcome,
                              runs_to_process |-> process_command.runs_to_process,
                              tasks |-> process_command.tasks]]
    /\ UNCHANGED << raw_data, pruned_data, compressed_data, verified, tool >>
    /\ UNCHANGED << jqVars, collectVars, fetchVars >>

\* The job of the command has exited and the engine has drained and stopped
\* (jq.py:296-299).  With exit status 0 the script has written the output of
\* every task (process_test.py:73-90); with another status, of some of them.
job_exits(code, written) ==
    /\ process_command.running
    /\ written \subseteq Range(process_command.tasks)
    /\ code = 0 => written = Range(process_command.tasks)
    /\ pruned_data' = pruned_data \cup written
    /\ process_command' = [process_command EXCEPT
                               !.running = FALSE,
                               !.outcome = IF code = 0 THEN "succeeded" ELSE "failed"]
    /\ UNCHANGED << raw_data, compressed_data, verified, tool >>
    /\ UNCHANGED << jqVars, collectVars, fetchVars >>

\* --- Compressor ---------------------------------------------------------------

\* Compressor.collect_runs_from_race, lines 137-146
to_compress(r) == r \in pruned_data /\ compressed_data[r].kind = "none"

\* Uncompressor.collect_runs_from_race, lines 222-231
to_uncompress(r) == compressed_data[r].kind # "none" /\ ~ raw_data[r].exists

\* Archiver.collect_runs_from_race, lines 409-419
to_archive(r) ==
    r \in pruned_data /\ compressed_data[r].kind # "none" /\ raw_data[r].exists

\* run() of the three classes up to the loop over the runs: the runs are
\* collected and the list is cut to the configuration's max_depth.
Begin(kind, given, found) ==
    /\ tool.kind = "none"
    /\ ~ process_command.running
    /\ tool' = [kind |-> kind, given |-> given, max_depth |-> CompressorConfig(given),
                selected |-> found, todo |-> Limited(found, CompressorConfig(given)),
                handled |-> << >>]

\* The loop body has been run for the head of the list.
Handled == [tool EXCEPT !.todo = Tail(tool.todo),
                        !.handled = Append(tool.handled, Head(tool.todo))]

\* Compressor(status, CompressorConfig(max_depth)).run(), lines 50-54, 71-78
compressor_run(limit) ==
    /\ Begin("Compressor", limit, SelectSeq(LatestFirst(BundleRuns), to_compress))
    /\ UNCHANGED << raw_data, pruned_data, compressed_data, verified, process_command >>
    /\ UNCHANGED << jqVars, collectVars, fetchVars >>

\* Compressor.compress_run, lines 82-99, for the next run of the list
compress_run(outcome) ==
    /\ tool.kind = "Compressor"
    /\ tool.todo # << >>
    /\ LET r == Head(tool.todo) IN
       IF ~ raw_data[r].exists
       THEN /\ outcome = NoArchive
            /\ tool' = Handled
            /\ UNCHANGED << compressed_data, verified >>
       ELSE /\ outcome \in TarOutcomes(raw_data[r].files)
            /\ IF OpenRaises(outcome)
               THEN \* the exception of tarfile.open ends Compressor.run
                    /\ compressed_data' = [compressed_data EXCEPT ![r] = outcome]
                    /\ tool' = NoTool
                    /\ UNCHANGED verified
               ELSE IF verify_archive(raw_data[r].files, outcome)
               THEN /\ compressed_data' = [compressed_data EXCEPT ![r] = outcome]
                    /\ verified' = verified \cup {r}
                    /\ tool' = Handled
               ELSE \* os.remove(compressed_data_path)
                    /\ compressed_data' = [compressed_data EXCEPT ![r] = NoArchive]
                    /\ verified' = verified \ {r}
                    /\ tool' = Handled
    /\ UNCHANGED << raw_data, pruned_data, process_command >>
    /\ UNCHANGED << jqVars, collectVars, fetchVars >>

\* --- Uncompressor -------------------------------------------------------------

\* Uncompressor(status, CompressorConfig(max_depth)).run(), lines 163-167, 184-191
uncompressor_run(limit) ==
    /\ Begin("Uncompressor", limit, SelectSeq(LatestFirst(BundleRuns), to_uncompress))
    /\ UNCHANGED << raw_data, pruned_data, compressed_data, verified, process_command >>
    /\ UNCHANGED << jqVars, collectVars, fetchVars >>

\* Uncompressor.uncompress_run, lines 195-203: tar -xjf writes the members
\* of an archive it can read
uncompress_run ==
    /\ tool.kind = "Uncompressor"
    /\ tool.todo # << >>
    /\ LET r == Head(tool.todo) IN
       raw_data' = IF compressed_data[r].kind = "readable"
                   THEN [raw_data EXCEPT ![r] = Folder(compressed_data[r].members)]
                   ELSE raw_data
    /\ tool' = Handled
    /\ UNCHANGED << pruned_data, compressed_data, verified, process_command >>
    /\ UNCHANGED << jqVars, collectVars, fetchVars >>

\* --- Archiver -----------------------------------------------------------------

\* Archiver(status, CompressorConfig(max_depth)).run(), lines 352-356, 373-378
archiver_run(limit) ==
    /\ Begin("Archiver", limit, SelectSeq(EarliestFirst(BundleRuns), to_archive))
    /\ UNCHANGED << raw_data, pruned_data, compressed_data, verified, process_command >>
    /\ UNCHANGED << jqVars, collectVars, fetchVars >>

\* The body of the loop of do_archive, lines 379-382, and delete_raw_run,
\* lines 384-390: shutil.rmtree(raw_data_path) if the archive's path exists
delete_raw_run ==
    /\ tool.kind = "Archiver"
    /\ tool.todo # << >>
    /\ LET r == Head(tool.todo) IN
       raw_data' = IF compressed_data[r].kind # "none"
                   THEN [raw_data EXCEPT ![r] = NoFolder]
                   ELSE raw_data
    /\ tool' = Handled
    /\ UNCHANGED << pruned_data, compressed_data, verified, process_command >>
    /\ UNCHANGED << jqVars, collectVars, fetchVars >>

\* The loop over the runs is over: '... finished' is reported and run() returns
\* (lines 55-56, 168-169, 357-358).
tool_finished ==
    /\ tool.kind # "none"
    /\ tool.todo = << >>
    /\ tool' = NoTool
    /\ UNCHANGED << raw_data, pruned_data, compressed_data, verified, process_command >>
    /\ UNCHANGED << jqVars, collectVars, fetchVars >>

\* Pruner runs of JqEngine, one after the other, on a bundle without pruned data.
InitProcess == JqInit /\ CollectUnused /\ FetchUnused /\ BundleInitWith({})

NextProcess ==
    \/ \E limit \in DepthArgs : engine_run(limit)
    \/ \E code \in ExitCodes, written \in SUBSET BundleRuns : job_exits(code, written)

SpecProcess == InitProcess /\ [][NextProcess]_vars

\* Compressor and Archiver runs, one after the other.
InitBundle == JqInit /\ CollectUnused /\ FetchUnused /\ BundleInit

NextArchive ==
    \/ \E limit \in DepthArgs : compressor_run(limit)
    \/ \E outcome \in TarOutcomes(RunFiles) : compress_run(outcome)
    \/ \E limit \in DepthArgs : archiver_run(limit)
    \/ delete_raw_run
    \/ tool_finished

SpecArchive == InitBundle /\ [][NextArchive]_vars

\* Compressor, Uncompressor and Archiver runs, one after the other.
NextCompress ==
    \/ NextArchive
    \/ \E limit \in DepthArgs : uncompressor_run(limit)
    \/ uncompress_run

SpecCompress == InitBundle /\ [][NextCompress]_vars

\* A new bundle (synced db, no run) and a root to import from.
ImportInit ==
    \E root \in ImportRoots :
        /\ CollectInitWith(None, default_collector_wait_period,
                           [c \in Candidates |-> TRUE], [t \in Range(Terms) |-> TRUE],
                           [t \in Range(Terms) |-> 1])
        /\ races = << FirstRace >>
        /\ race_slug = NoSlug
        /\ ImportInitWith(root)

InitImport == JqInit /\ ImportInit /\ FetchUnused /\ BundleUnused

NextImport ==
    \/ \E from \in {"bundle", "root"} : rawimport_run(from)
    \/ \E run_folder_name \in to_list : import_runs(run_folder_name)
    \/ import_end

SpecImport == InitImport /\ [][NextImport]_vars

\* The state after construction: an idle engine and a collector not yet run.
InitCollect == JqInit /\ CollectInit /\ FetchUnused /\ BundleUnused

SpecCollect == InitCollect /\ [][CollectNext]_vars

\* The state after construction of a collector that was given a slug.
\* Invocations over a db that holds one run already.
InitBaseline == JqInit /\ BaselineInit /\ FetchUnused /\ BundleUnused

SpecBaseline == InitBaseline /\ [][CollectNext]_vars

\* The collector, with invocations that are killed: at any point between two
\* steps, or inside process_results between the save and the commit.
NextInterrupt ==
    \/ CollectNext
    \/ killed
    \/ killed_in_first_process_results
    \/ killed_in_subsequent_process_results

SpecInterrupt == InitCollect /\ [][NextInterrupt]_vars

InitSlug == JqInit /\ SlugInit /\ FetchUnused /\ BundleUnused

NextSlug ==
    \/ slug_lookup_fails
    \/ CollectNext

SpecSlug == InitSlug /\ [][NextSlug]_vars

\* The state after construction, for one page fetch.
InitFetch == JqInit /\ CollectUnused /\ FetchInit /\ BundleUnused

SpecFetch == InitFetch /\ [][FetchNext]_vars

\* ------------------------------------------------------------------------
\* Properties of one page fetch
\* ------------------------------------------------------------------------

\* search_twitter is over: it returned a page or raised
SearchTwitterOver == fpc \in {"returned", "raised", "checked", "check_raised"}

\* C11 - Retry exactly once: a page fetch makes at most two remote calls; when
\* the first call met a rate-limit error, a rate-limit event was reported, a
\* sleep was made only for a positive backoff, and exactly one more call with
\* the same parameters was made; when that call failed the fetch raised.
RetryExactlyOnce ==
    /\ Len(twitter_calls) <= 2
    /\ \A n \in 1 .. Len(slept) : slept[n] > 0
    /\ (SearchTwitterOver /\ remote.first = "rate_limit") =>
           /\ \E n \in 1 .. Len(progress) : progress[n] = "rate-limit"
           /\ Len(twitter_calls) = 2
           /\ twitter_calls[1] = twitter_calls[2]
           /\ (remote.retry # "ok" => fpc = "raised")
    /\ (SearchTwitterOver /\ remote.first # "rate_limit") => Len(twitter_calls) = 1

\* the value cannot be read as a number: it is absent or not numeric
Unparseable(x) == x.type = "NoneType" \/ (x.type = "str" /\ ~ IsNumeric(x.text))

\* C20 - RateLimiter fails open: whenever rate_limit_info is given a reset
\* signal that cannot be read as a number, it reports an error event and
\* returns a zero backoff and does not raise; given an absent remaining
\* signal, the remaining it returns is 0.
RateLimiterFailsOpen ==
    info.called =>
        /\ Unparseable(info.limit_reset) =>
               /\ info.result.raises = "none"
               /\ info.result.sleep_dur = 0
               /\ info.result.reports = << "error" >>
        /\ (info.limit_remaining = PyNone /\ info.result.raises = "none") =>
               info.result.limit = 0

\* rate_limit_info returned normally from a reset signal it could read
ReadableReset ==
    /\ info.called
    /\ info.result.raises = "none"
    /\ ParseNumber(info.limit_reset).raises = "none"

\* C21 (as stated) - Backoff never negative: the duration rate_limit_info
\* returns is max(0, reset_time - now), so it is never negative.
BackoffNeverNegative ==
    ReadableReset =>
        LET due == ParseNumber(info.limit_reset).value - info.now IN
        /\ info.result.sleep_dur >= 0
        /\ info.result.sleep_dur = IF due > 0 THEN due ELSE 0

\* C21 - Backoff: the duration rate_limit_info returns is reset_time - now,
\* which is negative when the reset time is in the past; its callers sleep
\* only for a positive duration, so the time slept for one lookup is
\* max(0, reset_time - now).
BackoffSlept ==
    /\ ReadableReset =>
           info.result.sleep_dur = ParseNumber(info.limit_reset).value - info.now
    /\ \A n \in 1 .. Len(slept) : slept[n] > 0
    /\ (fpc = "retry" /\ info.result.sleep_dur <= 0) => slept = << >>
    /\ (fpc = "retry" /\ info.result.sleep_dur > 0) =>
           slept = << info.result.sleep_dur >>
    /\ (fpc = "checked" /\ info.result.limit <= 0 /\ info.result.sleep_dur > 0) =>
           /\ slept # << >>
           /\ slept[Len(slept)] = info.result.sleep_dur

\* a lookup made after the reset time: the duration is negative and the
\* retry follows without a sleep
BackoffSleptWitness ==
    /\ ReadableReset
    /\ info.result.sleep_dur < 0
    /\ fpc = "retry"
    /\ slept = << >>

\* check_rate_limit is over: it returned or it raised
RateLimitChecked == fpc \in {"checked", "check_raised"}

\* the remaining calls the last response reports: the number in the
\* x-rate-limit-remaining header, 0 when the header is absent
RemainingKnown ==
    headers.remaining = PyNone \/ ParseNumber(headers.remaining).raises = "none"

RemainingCalls ==
    IF headers.remaining = PyNone THEN 0 ELSE ParseNumber(headers.remaining).value

\* the rate-limit events and the sleeps of search_twitter itself: one of each
\* at most, when the first call met a rate-limit error
RateLimitEvents == Cardinality({ n \in 1 .. Len(progress) : progress[n] = "rate-limit" })

FromSearchTwitter == IF remote.first = "rate_limit" THEN 1 ELSE 0

\* C33 - Proactive throttle: after a recorded page the collector reads the
\* rate-limit signals; if the remaining calls are <= 0 it reports a
\* rate-limit event and sleeps for the computed backoff when that is
\* positive, before any further remote call; if the remaining calls are > 0
\* it neither reports a rate-limit event nor sleeps.
ProactiveThrottle ==
    (RateLimitChecked /\ RemainingKnown) =>
        /\ info.called
        /\ info.limit_remaining = headers.remaining
        /\ info.limit_reset = headers.reset
        /\ RemainingCalls <= 0 =>
               /\ fpc = "checked"
               /\ progress[Len(progress)] = "rate-limit"
               /\ RateLimitEvents = FromSearchTwitter + 1
               /\ IF info.result.sleep_dur > 0
                  THEN slept # << >> /\ slept[Len(slept)] = info.result.sleep_dur
                  ELSE Len(slept) <= FromSearchTwitter
        /\ RemainingCalls > 0 =>
               /\ RateLimitEvents = FromSearchTwitter
               /\ Len(slept) <= FromSearchTwitter

\* ------------------------------------------------------------------------
\* Properties of the collector
\* ------------------------------------------------------------------------

\* an invocation is under way
Collecting == cpc \in {"terms", "subsequent"}

\* the searches of a term this invocation has recorded
RecordedNow(term) == { n \in SearchesOf(term) : n > searches_at_start }

\* C6 - Depth bound: when a fresh run is over, a term whose first page was
\* fetched and whose chain has more than max_depth = N pages has exactly N page
\* writes and N search records; with max_depth = None it has one per link of
\* its chain.
DepthBound ==
    (cpc = "done" /\ ~ resume /\ collector_run # None) =>
        \A t \in Range(Terms) :
            first_page[t] = "fetched" =>
                IF max_depth = None
                THEN /\ writes[t] = chain_length[t]
                     /\ Cardinality(RecordedNow(t)) = chain_length[t]
                ELSE chain_length[t] > max_depth =>
                         /\ writes[t] = max_depth
                         /\ Cardinality(RecordedNow(t)) = max_depth

\* the resume invocation that immediately follows a completed fresh run
ImmediateResume == Collecting /\ resume /\ just_ran = "fresh"

\* the page the resume read from the run folder for the term
ReplayedPage(term) ==
    LET before == { n \in SearchesOf(term) :
                        n <= searches_at_start /\ searches[n].run = collector_run }
    IN  read_search_results(LatestSearch(before))

InWaitingPeriod(t) ==
    /\ last_date_at_first[t] # None
    /\ last_date_at_first[t] > time_at_first[t] - wait_period * 3600

\* C8 (as stated) - Waiting period enforcement: in any invocation, a term
\* whose last recorded page is newer than now minus wait_period hours gets no
\* remote call and no new page.
WaitingPeriodAsStated ==
    \A t \in Range(Terms) :
        (first_page[t] # "none" /\ InWaitingPeriod(t)) =>
            (calls[t] = 0 /\ writes[t] = 0)

\* C8 - Waiting period enforcement: in any invocation, fresh or resume, in
\* which the term's first page is not replayed from the folder of the run, a
\* term whose last recorded page is newer than now minus wait_period hours
\* gets no remote call and no new page.
WaitingPeriodEnforcement ==
    \A t \in Range(Terms) :
        (first_page[t] \notin {"none", "replay"} /\ InWaitingPeriod(t)) =>
            (first_page[t] = "waiting" /\ calls[t] = 0 /\ writes[t] = 0 /\ RecordedNow(t) = {})

WaitingPeriodWitness ==
    /\ cpc = "done"
    /\ ~ resume
    /\ wait_period > 0
    /\ first_page["t1"] = "waiting"
    /\ InWaitingPeriod("t1")
    /\ calls["t1"] = 0
    /\ SearchesOf("t1") # {}

\* two searches of one term in one run with none of them in between
Consecutive(m, n) ==
    /\ m < n
    /\ searches[m].run = searches[n].run
    /\ searches[m].search_term = searches[n].search_term
    /\ \A o \in SearchIds :
           (m < o /\ o < n) =>
               ~ (searches[o].run = searches[m].run
                  /\ searches[o].search_term = searches[m].search_term)

\* C9 (as stated) - Non-decreasing continuation markers: for consecutive
\* searches of one term in one run, marker[i] <= marker[i+1].
MarkersNonDecreasing ==
    \A m, n \in SearchIds :
        Consecutive(m, n) => searches[m].max_id <= searches[n].max_id

\* C9 - Continuation markers: for consecutive searches of one term in one
\* run, taken in call order, marker[i] >= marker[i+1].
MarkersNonIncreasing ==
    \A m, n \in SearchIds :
        Consecutive(m, n) => searches[m].max_id >= searches[n].max_id

MarkersWitness ==
    /\ cpc = "done"
    /\ resume
    /\ \E l, m, n \in SearchIds :
           /\ Consecutive(l, m)
           /\ Consecutive(m, n)
           /\ n > searches_at_start
           /\ m <= searches_at_start

\* C10 - Fetch-failure isolation: when the invocation is over after a fetch
\* failed for good, every active term has been attempted, the error has been
\* reported and the end of the run is set.
FetchFailureIsolation ==
    (cpc = "aborted" /\ "rate-limit" \in events) =>
        /\ \A t \in Range(Terms) : Active(t) => first_page[t] # "none"
        /\ "error" \in events
        /\ runs[collector_run].end # None

\* the runs whose end is not set
OpenRuns == { r \in RunIds : runs[r].end = None }

\* C12 - At most one open run: at any time at most one run of the race has
\* its end unset.
AtMostOneOpenRun == Cardinality(OpenRuns) <= 1

\* the term has been attempted in this invocation
Attempted(t) == first_page[t] # "none"

\* C13 - Run end ordering: the end of the run a fresh invocation created is
\* null as long as an active term has not been attempted in that invocation,
\* and it is set when the invocation is over with all of them attempted.
RunEndOrdering ==
    (~ resume /\ collector_run # None) =>
        /\ (\E t \in Range(Terms) : Active(t) /\ ~ Attempted(t)) =>
               runs[collector_run].end = None
        /\ (CollectorAtRest /\ \A t \in Range(Terms) : Active(t) => Attempted(t)) =>
               runs[collector_run].end # None

\* a step that begins an invocation (initialize_state)
BeginsInvocation == invocations' = invocations + 1

\* C14 - Resume with nothing to resume: a resume invocation for a race with no
\* run creates no run and no folder, makes no remote call, records no page,
\* reports 'No run to resume' and is over without raising.
ResumeNoOp ==
    [][(BeginsInvocation /\ resume' /\ runs = << >>) =>
           /\ runs' = << >>
           /\ folders' = folders
           /\ files' = files
           /\ searches' = searches
           /\ ~ called_twitter'
           /\ \A t \in Range(Terms) : calls'[t] = 0
           /\ events' = {"progress"}
           /\ cpc' = "done"]_vars

ResumeNoOpWitness ==
    /\ invocations > 0
    /\ resume
    /\ cpc = "done"
    /\ collector_run = None
    /\ runs = << >>
    /\ folders = {}
    /\ "progress" \in events

\* C15 - Run creation: a fresh invocation appends exactly one run, whose start
\* is the invocation's current time, and makes it the current run; a resume
\* invocation leaves the runs as they are and takes the most recent one; no
\* other step creates a run.
RunCreation ==
    /\ [][(BeginsInvocation /\ ~ resume') =>
              /\ Len(runs') = Len(runs) + 1
              /\ SubSeq(runs', 1, Len(runs)) = runs
              /\ runs'[Len(runs')].start = current_time'
              /\ collector_run' = Len(runs')]_vars
    /\ [][(BeginsInvocation /\ resume') =>
              /\ runs' = runs
              /\ runs # << >> =>
                     /\ collector_run' \in RunIds
                     /\ \A r \in RunIds : runs[r].start <= runs[collector_run'].start]_vars
    /\ [][~ BeginsInvocation => Len(runs') = Len(runs)]_vars

RunCreationWitness ==
    /\ cpc = "done"
    /\ ~ resume
    /\ Len(runs) = 2
    /\ runs[2].start = runs[1].end + 1
    /\ \A t \in Range(Terms) : Active(t)
    /\ \A t \in Range(Terms) : first_page[t] = "waiting"
    /\ Len(searches) = searches_at_start

\* C16 - One record per fetch: in every invocation each term has as many new
\* search records as pages were fetched for it, every new record is owned by
\* the current run, and no step changes or removes a record there is.
OneRecordPerFetch ==
    /\ [](\A t \in Range(Terms) :
              /\ Cardinality(RecordedNow(t)) = fetched[t]
              /\ \A n \in RecordedNow(t) : searches[n].run = collector_run)
    /\ [][/\ Len(searches') >= Len(searches)
          /\ SubSeq(searches', 1, Len(searches)) = searches]_vars

OneRecordPerFetchWitness ==
    /\ cpc = "done"
    /\ resume
    /\ searches_at_start > 1
    /\ fetched["t1"] > 0
    /\ Cardinality(RecordedNow("t1")) = fetched["t1"]

\* C17 - max_depth is the maximum number of calls per search term: in every
\* invocation, fresh or resume, the pages fetched for a term are at most
\* max_depth when max_depth is not None.
MaxDepthIsMaxCalls ==
    max_depth # None => \A t \in Range(Terms) : fetched[t] <= max_depth

\* the largest number of a non-empty set of numbers
Max(S) == CHOOSE x \in S : \A y \in S : y <= x

\* the markers of the term's pages recorded before the current run started
MarkersBeforeRun(t) ==
    { searches[n].max_id : n \in { m \in SearchesOf(t) :
                                       searches[m].date < runs[collector_run].start } }

\* the since filter the claim expects of the requests for the term
ExpectedSince(t) ==
    IF Len(runs) > 1 /\ MarkersBeforeRun(t) # {} THEN Max(MarkersBeforeRun(t)) ELSE None

\* C18 - Since filter: in a fresh invocation every request for a term, the
\* first-page request and each continuation request, carries since = the
\* highest marker among the term's pages recorded before the current run's
\* start when the race has a previous run and such a page exists, and no since
\* filter otherwise.
SinceFilter ==
    (~ resume /\ collector_run # None) =>
        \A n \in 1 .. Len(requests) :
            requests[n].since_id = ExpectedSince(requests[n].q)

SinceFilterWitness ==
    /\ ~ resume
    /\ cpc = "done"
    /\ \E m, n \in 1 .. Len(requests) :
           /\ m < n
           /\ requests[m].q = "t1"
           /\ requests[m].max_id = None
           /\ requests[m].since_id = PageId(1)
           /\ requests[n].q = "t1"
           /\ requests[n].max_id # None
           /\ requests[n].since_id = PageId(1)
    /\ Cardinality(MarkersBeforeRun("t1")) > 1

\* the searches of the term in the current run
PagesInRun(t) == { n \in SearchesOf(t) : searches[n].run = collector_run }

\* the requests of this invocation for the term, in order
RECURSIVE RequestsFor(_, _)
RequestsFor(t, reqs) ==
    IF reqs = << >> THEN << >>
    ELSE (IF Head(reqs).q = t THEN << Head(reqs) >> ELSE << >>) \o RequestsFor(t, Tail(reqs))

Min(a, b) == IF a <= b THEN a ELSE b

Inactive(t) == ~ search_term_active[t] \/ ~ candidate_active[CandidateOf(t)]

\* C27 - Inactive terms skipped entirely: for a term whose active flag is
\* false or whose candidate is inactive no remote call is made, no page is
\* written and no search is recorded, in any invocation; and an invocation
\* that reaches its end has attempted every other term.
InactiveTermsSkipped ==
    /\ \A t \in Range(Terms) :
           Inactive(t) =>
               /\ calls[t] = 0
               /\ writes[t] = 0
               /\ fetched[t] = 0
               /\ first_page[t] = "none"
               /\ SearchesOf(t) = {}
               /\ \A n \in 1 .. Len(requests) : requests[n].q # t
    /\ (cpc = "done" /\ just_ran \in {"fresh", "resume"}) =>
           \A t \in Range(Terms) : ~ Inactive(t) => Attempted(t)

\* a fresh invocation is over that skipped a term whose flag is false and
\* fetched and wrote a page of every other term
InactiveTermsSkippedWitness ==
    /\ cpc = "done"
    /\ just_ran = "fresh"
    /\ \E t \in Range(Terms) : Inactive(t) /\ ~ search_term_active[t]
    /\ \A t \in Range(Terms) : ~ Inactive(t) => (first_page[t] = "fetched" /\ writes[t] >= 1)

\* the slug the collector was given matches no race or more than one
BadSlug ==
    /\ race_slug # NoSlug
    /\ Cardinality({ n \in 1 .. Len(races) : slug_for_race(races[n]) = race_slug }) # 1

\* C28 - Slug lookup failure: when the slug matches no race or more than one
\* race, TweetCollector.run reports an error event and nothing else, and
\* leaves the state as it was: no run, folder, search or page is created and
\* no remote call is made.
SlugLookupFailure ==
    /\ [](BadSlug =>
            /\ runs = << >>
            /\ searches = << >>
            /\ files = {}
            /\ folders = {}
            /\ collector_run = None
            /\ ~ called_twitter
            /\ requests = << >>
            /\ \A t \in Range(Terms) : calls[t] = 0 /\ writes[t] = 0
            /\ events \subseteq {"error"})
    /\ [][BadSlug => (events' = {"error"} /\ dbVars' = dbVars)]_vars

\* the slug of two races was asked for and the error has been reported
SlugLookupFailureWitness ==
    /\ BadSlug
    /\ Len(races) = 2
    /\ slug_for_race(races[1]) = race_slug
    /\ events = {"error"}

\* the run folders this import found that had a run in the db when it began
KnownAtImport ==
    { n \in listed : \E r \in 1 .. runs_at_import :
                          runs[r].start = run_folder_name_to_datetime(n) }

\* C29 - Import idempotence: an import that finds only run folders whose run
\* is already in the db imports no run, lists every one of the folders as
\* skipped and creates no run and no search; and no two searches an import
\* creates have the same search term and the same marker.
ImportIdempotence ==
    /\ (ipc = "done" /\ KnownAtImport = listed) =>
           /\ imported_run_folders = << >>
           /\ Range(skipped_run_folders) = listed
           /\ Len(skipped_run_folders) = Cardinality(listed)
           /\ Len(runs) = runs_at_import
           /\ Len(searches) = searches_at_import
    /\ \A a, b \in SearchIds :
           (a # b /\ searches[a].search_term = searches[b].search_term)
           => searches[a].max_id # searches[b].max_id

\* the second import of a root of two run folders that hold two pages of
\* the same term and marker: both folders are skipped, one search exists
\* for the marker
ImportIdempotenceWitness ==
    /\ ipc = "done"
    /\ imports = 2
    /\ import_from = "root"
    /\ Len(skipped_run_folders) = 2
    /\ Len(runs) = 2
    /\ \E f, g \in import_root :
           /\ f # g
           /\ \E x \in f.files, y \in g.files :
                  /\ x.results = y.results
                  /\ x.results.q \in Range(Terms)
    /\ searches # << >>

\* the step of collect_first_tweets is next: an active term is up
FirstPageStep == cpc = "terms" /\ term_index <= Len(Terms) /\ ~ Inactive(Terms[term_index])

\* the pages of the term the db has in the current run
PagesOfCurrentRun(t) ==
    { n \in SearchIds : searches[n].search_term = t /\ searches[n].run = collector_run }

\* the payload in the run folder of the latest of these pages
LatestPayload(t) ==
    LET latest == CHOOSE n \in PagesOfCurrentRun(t) :
                      \A m \in PagesOfCurrentRun(t) : searches[m].date <= searches[n].date
    IN  (CHOOSE f \in files :
             f.folder = collector_run /\ f.name = searches[latest].results_path).results

\* the term is in its waiting period at the time the fresh first-page step reads
WaitingAt(t, now) ==
    \E n \in SearchIds :
        /\ searches[n].search_term = t
        /\ \A m \in SearchIds : searches[m].search_term = t => searches[m].date <= searches[n].date
        /\ now - searches[n].date < wait_period * 3600

\* C34 - Replay: in resume mode, when the current run already has a page of
\* the term, the first-page step makes no remote call, writes no file,
\* records no search, reads neither the clock nor the waiting period, and
\* yields the payload of the term's page with the latest date in the current
\* run; when the current run has no page of the term the step is that of a
\* fresh run: the waiting period is checked, and outside it a remote call
\* is made.
Replay ==
    [][FirstPageStep =>
          LET t == Terms[term_index] IN
          IF resume /\ PagesOfCurrentRun(t) # {}
          THEN /\ calls' = calls
               /\ requests' = requests
               /\ called_twitter' = called_twitter
               /\ files' = files
               /\ searches' = searches
               /\ writes' = writes
               /\ clock' = clock
               /\ current_time' = current_time
               /\ cpc' = "subsequent"
               /\ term_index' = term_index
               /\ results' = LatestPayload(t)
          ELSE /\ current_time' = clock + 1
               /\ IF WaitingAt(t, clock + 1)
                  THEN /\ calls' = calls
                       /\ requests' = requests
                       /\ searches' = searches
                       /\ files' = files
                       /\ term_index' = term_index + 1
                       /\ cpc' = "terms"
                  ELSE /\ calls'[t] >= calls[t] + 1
                       /\ Len(requests') = Len(requests) + 1
                       /\ requests'[Len(requests')].q = t
                       /\ requests'[Len(requests')].max_id = None
                       /\ called_twitter']_vars

\* a resume has replayed, inside the waiting period, the later of the two
\* pages the run has of the first term, and has fetched the first page of
\* the second term, of which the run had none
ReplayWitness ==
    /\ resume
    /\ wait_period > 0
    /\ first_page["t1"] = "replay"
    /\ Cardinality({ n \in PagesOfCurrentRun("t1") : n <= searches_at_start }) >= 2
    /\ first_page["t2"] = "fetched"
    /\ calls["t2"] >= 1

\* the run is the race's most recent one, and the run before a run (or None)
MostRecentRun(r) == \A x \in RunIds : runs[x].start <= runs[r].start

RunBefore(r) ==
    IF RunIds \ {r} = {} THEN None
    ELSE CHOOSE x \in RunIds \ {r} : \A y \in RunIds \ {r} : runs[y].start <= runs[x].start

\* the markers of the term's pages that are not of the current run
MarkersOfOtherRuns(t) ==
    { searches[n].max_id : n \in { m \in SearchIds :
          searches[m].search_term = t /\ searches[m].run # collector_run } }

\* the since filter is none of the current run's and is the one the
\* invocation that created the run used for the term
SinceOfBaseline(t, since) ==
    /\ since # None => since \in MarkersOfOtherRuns(t)
    /\ previous_collector_run = None => since = None
    /\ since_at_fresh[t] # {} => since \in since_at_fresh[t]

\* C35 - Resume baseline: in resume mode the current run is the race's most
\* recent run and the baseline is the run before it; the since filter used
\* for a term during the resume never comes from a page recorded in the run
\* being resumed and equals the since filter the fresh invocation that
\* created the run used for the term.
ResumeBaseline ==
    (resume /\ collector_run # None) =>
        /\ MostRecentRun(collector_run)
        /\ previous_collector_run = RunBefore(collector_run)
        /\ \A n \in 1 .. Len(requests) :
               SinceOfBaseline(requests[n].q, requests[n].since_id)
        /\ cpc = "subsequent" => SinceOfBaseline(Terms[term_index], last_run_max_id)

\* a resume of the second run, whose baseline is the first: a request of the
\* resume carries the marker of the first run's page, as the fresh
\* invocation did
ResumeBaselineWitness ==
    /\ resume
    /\ collector_run = 2
    /\ previous_collector_run = 1
    /\ PagesOfCurrentRun("t1") # {}
    /\ \E n \in 1 .. Len(requests) :
           /\ requests[n].q = "t1"
           /\ requests[n].since_id = PageId(1)
           /\ since_at_fresh["t1"] = {PageId(1)}

\* the searches the db has of a file of a run folder
RecordsOf(f) ==
    { n \in SearchIds : searches[n].run = f.folder /\ searches[n].results_path = f.name }

\* the files of a run folder
FilesOf(r) == { f \in files : f.folder = r }

\* C36 - Safe resume after interruption: wherever an invocation was
\* interrupted, also between the write of a page's file and the commit of
\* its search, a later resume fetches no page whose payload is in the run
\* folder already, so no run folder holds two files of the same page; and
\* once a resume has finished, every file of its run folder has exactly one
\* search record.
SafeResume ==
    /\ \A f, g \in files : (f.folder = g.folder /\ f.results = g.results) => f = g
    /\ (resume /\ cpc = "done" /\ collector_run # None) =>
           \A f \in FilesOf(collector_run) : Cardinality(RecordsOf(f)) = 1

\* ------------------------------------------------------------------------
\* Properties of the data folders
\* ------------------------------------------------------------------------

\* C37 -- No raw data loss: under any sequence of Compressor and Archiver runs,
\* every run that once had raw data (here: every run of the race) always keeps
\* its raw folder or an archive that verify_archive has accepted.
NoRawDataLoss ==
    \A r \in BundleRuns :
        \/ raw_data[r].exists
        \/ compressed_data[r].kind # "none" /\ r \in verified

\* C38 -- Compressor depth limit: with CompressorConfig(max_depth = N) for a
\* positive N, one Compressor, Uncompressor or Archiver invocation handles at
\* most N runs of the race; with None or a non-positive max_depth it handles
\* every run it collected.
CompressorDepthLimit ==
    tool.kind # "none" =>
        IF tool.given # None /\ tool.given > 0
        THEN Len(tool.handled) + Len(tool.todo) <= tool.given
        ELSE tool.handled \o tool.todo = tool.selected

\* The runs JqEngine.run's command selected: those without output.
Selected == Range(process_command.runs_to_process)

\* The runs the command queued a task for.
Queued == Range(process_command.tasks)

\* The smaller of a limit and a list's length.
AtMost(n, list) == IF n < Len(list) THEN n ELSE Len(list)

\* What C39 says of the selection and of the cut to max_depth.
TasksOfSelection ==
    /\ Selected = {r \in BundleRuns : r \notin pruned_data}
    /\ Queued \subseteq Selected
    /\ IF process_command.given # None /\ process_command.given > 0
       THEN /\ Len(process_command.tasks) =
                   AtMost(process_command.given, process_command.runs_to_process)
            /\ \A r \in Queued, s \in Selected \ Queued : s < r
       ELSE process_command.tasks = process_command.runs_to_process

\* The JqEngine.run before the current one ended with exit status 0.
AfterSuccess == process_command.running /\ process_command.previous.outcome = "succeeded"

\* C39 as stated -- Task selection: a run becomes a task only when its output
\* does not exist yet; with max_depth = N > 0 at most N tasks are queued, for
\* the N most recently started runs among those selected, and with a
\* non-positive max_depth every selected run becomes a task; a second
\* engine.run right after a fully successful one queues zero tasks.
TaskSelectionAsStated ==
    process_command.running =>
        /\ TasksOfSelection
        /\ AfterSuccess => process_command.tasks = << >>

\* C39 -- Task selection: a run becomes a task only when its output does not
\* exist yet; with max_depth = N > 0 at most N tasks are queued, for the N most
\* recently started runs among those selected, and with a non-positive
\* max_depth every selected run becomes a task; a second engine.run right
\* after a fully successful one queues no task for a run the first one had a
\* task for, and zero tasks when the first one had a task for every run it
\* selected.
TaskSelection ==
    process_command.running =>
        /\ TasksOfSelection
        /\ AfterSuccess =>
               /\ Queued \cap Range(process_command.previous.tasks) = {}
               /\ process_command.previous.tasks = process_command.previous.runs_to_process
                      => process_command.tasks = << >>

\* a second run, after a successful one that max_depth kept from taking every
\* run, is itself kept by max_depth from taking all that is left
TaskSelectionWitness ==
    /\ AfterSuccess
    /\ process_command.previous.tasks # << >>
    /\ process_command.tasks # << >>
    /\ Len(process_command.tasks) < Len(process_command.runs_to_process)

Init == JqInit /\ CollectUnused /\ FetchUnused /\ BundleUnused

Next ==
    \/ \E m \in Capacities : set_max_number_running_processes(m)
    \/ start_run
    \/ stop_run
    \/ \E async \in BOOLEAN, code \in ExitCodes : spark_submit(async, code, MaxJobs)
    \/ \E proc \in Handles, code \in ExitCodes : process_exits(proc, code)
    \/ process_spark_queue
    \/ DrainStep

Spec == Init /\ [][Next]_vars

\* The control thread keeps running, and every started process exits.
SpecFair ==
    /\ Spec
    /\ WF_vars(DrainStep)
    /\ \A proc \in 1 .. MaxJobs : WF_vars(\E code \in ExitCodes : process_exits(proc, code))

\* The engine as constructed (capacity 10), up to ScenarioJobs asynchronous
\* jobs, and child processes that outlive the passes observed.
NextDefaultCapacity ==
    \/ start_run
    \/ \E code \in ExitCodes : spark_submit(TRUE, code, ScenarioJobs)
    \/ process_spark_queue
    \/ while_test
    \/ for_poll
    \/ for_done
    \/ start_first
    \/ start_done
    \/ sleep
    \/ route_done

SpecDefaultCapacity == Init /\ [][NextDefaultCapacity]_vars

\* One JqEngine.run(cmd) on a new engine (process_test.py builds one engine
\* per command), whose client may have set the capacity beforehand.
NextEngine ==
    \/ \E m \in Capacities : set_max_number_running_processes(m)
    \/ \E just_config \in BOOLEAN, runs_to_process \in 0 .. MaxTasks :
           run(just_config, runs_to_process)
    \/ do_processing_start_run
    \/ start_processing
    \/ do_processing_process_spark_queue
    \/ \E proc \in Handles, code \in ExitCodes : process_exits(proc, code)
    \/ DrainStep
    \/ do_processing_stop_run
    \/ run_finished

SpecEngine == Init /\ [][NextEngine]_vars
====
